---- MODULE Spec2Model ----
(***************************************************************************)
(* aebn-vod-downloader: the manifest-driven segmented download engine.     *)
(*                                                                         *)
(*   SpecSel  Manifest.process_manifest / parse_content on a bounded set   *)
(*            of manifest documents (stream selection).                    *)
(*   SpecCalc the segment arithmetic of process_manifest on a bounded set   *)
(*            of segment templates and durations, with the scene boundaries *)
(*            Downloader._process_manifest has calculated from them.       *)
(*   SpecMovie the segment range of a scene in movie.py, with padding.     *)
(*   SpecAsm  assembly of one stream from a bounded set of recorded path   *)
(*            lists (ordering).                                            *)
(*   Spec     Downloader.run: the two concurrent stream fetches with the   *)
(*            403 refresh protocol, assembly and the hand-off to ffmpeg.   *)
(*                                                                         *)
(* Strings (paths, file names) are sequences of one-character strings.     *)
(***************************************************************************)
EXTENDS Integers, Sequences, FiniteSets, TLC

\* ------------------------------------------------------------------ bounds
MaxHeight == 3        \* heights of a ladder are drawn from 1..MaxHeight
MaxAsmIndex == 11     \* SpecAsm: largest data-segment index of a recorded path
MaxAsmLen == 3        \* SpecAsm: largest number of recorded data-segment paths
MaxFaults == 2        \* Spec: non-success answers of the remote side in one run
MaxThreads == 2       \* Spec: self.threads is drawn from 1..MaxThreads
MaxTimescale == 11    \* SpecCalc: SegmentTemplate/@timescale is drawn from 1..MaxTimescale
MaxDuration == 3      \* SpecCalc: SegmentTemplate/@duration is drawn from 1..MaxDuration
MaxSeconds == 15      \* SpecCalc: total_duration_seconds is drawn from 0..MaxSeconds
MaxSceneLen == 1      \* SpecCalc, SpecMovie: data-time-duration is drawn from 0..MaxSceneLen
MaxPadding == 2       \* SpecMovie: scene_padding is drawn from 0..MaxPadding
MaxSceneStart == 3    \* SpecMovie: data-time-start is drawn from 0..MaxSceneStart
MaxRetries == 4       \* SpecReq: max_retries is drawn from 0..MaxRetries
MaxDelay == 2         \* SpecReq: initial_retry_delay, backoff_factor are drawn from 1..MaxDelay
MaxJoinLen == 3       \* SpecJoin: largest number of files handed to _join_files
MaxBytes == 2         \* SpecJoin: the bytes of a segment file are drawn from 1..MaxBytes
MaxLegacyTotal == 2   \* SpecLegacy: total_number_of_data_segments is drawn from 1..MaxLegacyTotal
MaxTries == 3         \* SpecLegacyCall: max_tries of _download_segment is drawn from 0..MaxTries

\* Python's None for an optional int (target_height, segment_number, ...).
None == 0 - 1

Range(f) == {f[i] : i \in DOMAIN f}

Last(s) == s[Len(s)]

RECURSIVE Reversed(_)
Reversed(s) == IF s = <<>> THEN <<>> ELSE Reversed(Tail(s)) \o <<Head(s)>>

\* ----------------------------------------------------------------- strings
Digit == <<"0", "1", "2", "3", "4", "5", "6", "7", "8", "9">>

\* str(n) of a non-negative int, as f-strings format it.
RECURSIVE Str(_)
Str(n) == IF n < 10 THEN <<Digit[n + 1]>> ELSE Str(n \div 10) \o <<Digit[(n % 10) + 1]>>

\* ord(c) for the characters that occur in the paths of the work directory.
Ord(c) ==
    CASE c = "." -> 46 [] c = "/" -> 47
      [] c = "0" -> 48 [] c = "1" -> 49 [] c = "2" -> 50 [] c = "3" -> 51
      [] c = "4" -> 52 [] c = "5" -> 53 [] c = "6" -> 54 [] c = "7" -> 55
      [] c = "8" -> 56 [] c = "9" -> 57
      [] c = "_" -> 95 [] c = "a" -> 97 [] c = "i" -> 105 [] c = "m" -> 109
      [] c = "p" -> 112 [] c = "v" -> 118 [] c = "w" -> 119

IsDigit(c) == Ord(c) >= 48 /\ Ord(c) <= 57

\* int(text) of a run of decimal digits.
RECURSIVE IntOf(_)
IntOf(ds) ==
    IF ds = <<>> THEN 0 ELSE IntOf(SubSeq(ds, 1, Len(ds) - 1)) * 10 + (Ord(Last(ds)) - 48)

\* Python's < on two str values (code-point order, a proper prefix is smaller).
RECURSIVE StrLess(_, _)
StrLess(a, b) ==
    IF b = <<>> THEN FALSE
    ELSE IF a = <<>> THEN TRUE
    ELSE IF Head(a) # Head(b) THEN Ord(Head(a)) < Ord(Head(b))
    ELSE StrLess(Tail(a), Tail(b))

\* movie_work_dir = os.path.join(work_dir, movie_id)
movie_work_dir == <<"w", "/", "7">>

\* os.path.join(movie_work_dir, name)
PathJoin(dir, name) == dir \o <<"/">> \o name

Ext == <<".", "m", "p", "4">>

\* segment_name of _download_segment: "{media_type}_{stream_id}_{n}" for a data
\* segment, "{media_type}i_{stream_id}" for the initialization segment.
SegmentName(media_type, stream_id, segment_number) ==
    IF segment_number # None
        THEN <<media_type, "_">> \o Str(stream_id) \o <<"_">> \o Str(segment_number)
        ELSE <<media_type, "i", "_">> \o Str(stream_id)

SegmentPath(media_type, stream_id, segment_number) ==
    PathJoin(movie_work_dir, SegmentName(media_type, stream_id, segment_number) \o Ext)

\* stream.path of _set_stream_paths
StreamPath(media_type, stream_id) ==
    PathJoin(movie_work_dir, <<media_type, "_">> \o Str(stream_id) \o Ext)

\* -------------------------------------------------------- natural_sort_key
\* re.split(r"(\d+)", s): text, digits, text, digits, ..., text (the text
\* pieces may be empty); tokens are [num, txt] with num = None for a text piece.
RECURSIVE SplitDigits(_, _, _)
SplitDigits(s, cur, inDigits) ==
    IF s = <<>> THEN
        IF inDigits THEN <<[num |-> IntOf(cur), txt |-> <<>>], [num |-> None, txt |-> <<>>]>>
        ELSE <<[num |-> None, txt |-> cur]>>
    ELSE IF IsDigit(Head(s)) = inDigits THEN SplitDigits(Tail(s), Append(cur, Head(s)), inDigits)
    ELSE IF inDigits THEN
        <<[num |-> IntOf(cur), txt |-> <<>>]>> \o SplitDigits(Tail(s), <<Head(s)>>, FALSE)
    ELSE <<[num |-> None, txt |-> cur]>> \o SplitDigits(Tail(s), <<Head(s)>>, TRUE)

\* The same split with no int() conversion: every piece stays text.
RECURSIVE SplitLexical(_, _, _)
SplitLexical(s, cur, inDigits) ==
    IF s = <<>> THEN
        IF inDigits THEN <<[num |-> None, txt |-> cur], [num |-> None, txt |-> <<>>]>>
        ELSE <<[num |-> None, txt |-> cur]>>
    ELSE IF IsDigit(Head(s)) = inDigits THEN SplitLexical(Tail(s), Append(cur, Head(s)), inDigits)
    ELSE <<[num |-> None, txt |-> cur]>> \o SplitLexical(Tail(s), <<Head(s)>>, ~inDigits)

natural_sort_key_lexical(s) == SplitLexical(s, <<>>, FALSE)

natural_sort_key(s) == SplitDigits(s, <<>>, FALSE)

\* Python's < on two key lists: the first differing element decides, ints by
\* value and strs by code point; a proper prefix is smaller.
RECURSIVE KeyLess(_, _)
KeyLess(k1, k2) ==
    IF k2 = <<>> THEN FALSE
    ELSE IF k1 = <<>> THEN TRUE
    ELSE IF Head(k1) = Head(k2) THEN KeyLess(Tail(k1), Tail(k2))
    ELSE IF Head(k1).num # None /\ Head(k2).num # None THEN Head(k1).num < Head(k2).num
    ELSE StrLess(Head(k1).txt, Head(k2).txt)

\* sorted(files, key=natural_sort_key): stable insertion.
RECURSIVE InsertByKey(_, _)
InsertByKey(sorted, p) ==
    IF sorted = <<>> THEN <<p>>
    ELSE IF KeyLess(natural_sort_key(p), natural_sort_key(Head(sorted)))
        THEN <<p>> \o sorted
        ELSE <<Head(sorted)>> \o InsertByKey(Tail(sorted), p)

RECURSIVE SortedByKey(_)
SortedByKey(files) ==
    IF files = <<>> THEN <<>>
    ELSE InsertByKey(SortedByKey(SubSeq(files, 1, Len(files) - 1)), Last(files))

\* A path names an initialization segment: its file name is "{type}i_{id}.mp4".
IsInitPath(p) ==
    /\ Len(p) > Len(movie_work_dir) + 2
    /\ p[Len(movie_work_dir) + 3] = "i"

\* utils.concat_segments(files, output_path, ...): the order in which the files
\* are copied into the output: the initialization segment first, the rest by
\* ascending numeric index.
concat_segments(files) ==
    SortedByKey(SelectSeq(files, IsInitPath))
        \o SortedByKey(SelectSeq(files, LAMBDA p : ~IsInitPath(p)))

\* ---------------------------------------------------------------- state
VARIABLES
    manifest,      \* the Manifest object of the Downloader (its fields)
    objs,          \* the MediaStream objects ever constructed; a reference is an index
    doc,           \* the manifest document the delivery endpoint serves
    audio_valid,   \* the probes <<stream id, data segment number>> that
                   \* utils.is_valid_media accepts
    mpc,           \* SpecSel: "new", then "ok" or "error" after process_manifest
    probes,        \* the downloads <<stream id, segment number>> the audio probing has
                   \* made so far, in order
    scene_elems,   \* the scroller elements of the m.aebn.net page of the movie
    scenes,        \* Movie.scenes of the scraped movie (movie_scraper.py)
    movie,         \* the Movie object of movie.py (its fields)
    asm_files,     \* SpecAsm: stream.downloaded_segments handed to _concat_stream
    asm_out,       \* SpecAsm: the paths in the order their bytes were copied
    asm_pc,        \* SpecAsm: "start", then "done"
    rpc,           \* Downloader.run: the step the main thread is at
    target_stream, \* "audio", "video" or "both" (None)
    overwrite_existing_files,
    threads,       \* workers of the pool of one _download_stream
    start_segment, \* override, 0 by default
    end_segment,   \* override, None by default
    segment_range, \* <<first, last>> as resolved by _download_streams
    disk,          \* segment files of the work directory: path -> "old" | "new"
    spc,           \* per stream: where _download_stream is
    sref,          \* per stream: the MediaStream object _download_stream was given
    task,          \* per stream: segment number -> the download_task of that segment
    lock,          \* per stream: the task holding manifest_lock, or None
    url_issued,    \* signed URLs the delivery endpoint has handed out so far
    faults,        \* non-success answers the remote side has given so far
    refreshes,     \* process_manifest calls begun after the initial one
    served,        \* per stream: segment numbers answered 200 or found on disk
    burst,         \* per stream: tasks answered 403 before any refresh began
    late,          \* per stream: a request was sent after the error was raised
    requests,      \* per stream: session.get calls _download_segment has made
    init_answer,   \* per stream: status answered for the initialization segment
    cpc,           \* per stream: where _concat_stream is
    assembled,     \* per stream: the <<path, content>> pairs _concat_stream copied
    stream_file,   \* per stream: the file stream.path exists
    output,        \* the output file: "none", "muxed" or "renamed"
    ffmpeg_out,    \* the CompletedProcess of the ffmpeg call: returncode and stderr
    ffmpeg_error,  \* the FFmpegError utils.ffmpeg_mux_streams raised, or NoError
    keep_segments_after_download,  \* Downloader.keep_segments_after_download
    work_folder,   \* movie_work_dir on disk: "exists" until _work_folder_cleanup removes it
    join_files,    \* SpecJoin: the files argument of Movie._join_files
    join_src,      \* SpecJoin: path -> bytes of the segment files before the call
    join,          \* SpecJoin: per aggressive_segment_cleaning value, one _join_files call
    legacy,        \* SpecLegacy: the Movie object during _download_segments;
                   \* SpecLegacyCall: the Movie object during one _download_segment call
    session,       \* SpecReq: the CustomSession (its fields)
    request,       \* SpecReq: the custom_request call in progress
    delivery       \* SpecReq: where Manifest._get_new_manifest_url is, and its outcome

selVars == <<manifest, objs, doc, audio_valid, mpc>>
sceneVars == <<scene_elems, scenes, movie>>
asmVars == <<asm_files, asm_out, asm_pc>>
cfgVars == <<target_stream, overwrite_existing_files, threads, start_segment, end_segment,
             keep_segments_after_download>>
ghostVars == <<served, burst, late, requests, init_answer>>
muxVars == <<ffmpeg_out, ffmpeg_error>>
runVars == <<rpc, cfgVars, segment_range, disk, spc, sref, task, lock, url_issued, faults,
             refreshes, ghostVars, cpc, assembled, stream_file, output, muxVars, work_folder>>
reqVars == <<session, request, delivery>>
joinVars == <<join_files, join_src, join>>
vars == <<selVars, probes, sceneVars, asmVars, joinVars, legacy, reqVars, runVars>>

StreamNames == {"audio", "video"}

\* No ffmpeg call has returned; no exception has been raised.
NoOutput == [returncode |-> None, stderr |-> <<>>]

NoError == [type |-> "none", args |-> <<>>]

\* -------------------------------------------------------- custom_session.py
\* CustomSession.__init__
CustomSessionInit(max_retries, initial_retry_delay, backoff_factor) ==
    [max_retries |-> max_retries, initial_retry_delay |-> initial_retry_delay,
     backoff_factor |-> backoff_factor]

\* No custom_request call: pc is "idle"; a call is at "try" until it has
\* "returned" or "raised". attempt is the local of that name, sent counts the
\* super().request calls, slept the seconds of backoff without the jitter.
NoResponse == [status_code |-> None, body |-> "none"]

NoRequest ==
    [pc |-> "idle", method |-> "none", attempt |-> 0, sent |-> 0, errors |-> 0, slept |-> 0,
     response |-> NoResponse]

\* The request variables of a state in which no request is being made: the
\* session is CustomSession(impersonate="chrome") with the default arguments;
\* and no _join_files call.
ReqIdle ==
    /\ session = CustomSessionInit(3, 1, 2)
    /\ request = NoRequest
    /\ delivery = [pc |-> "new", url |-> None, error |-> "none"]
    /\ join_files = <<>> /\ join_src = <<>> /\ join = <<>> /\ legacy = <<>>

\* The run variables of a state in which no Downloader runs.
RunIdle ==
    /\ rpc = "none" /\ target_stream = "both" /\ overwrite_existing_files = FALSE
    /\ threads = 1
    /\ start_segment = 0 /\ end_segment = None /\ segment_range = <<0, 0>>
    /\ disk = <<>> /\ spc = [s \in StreamNames |-> "unused"]
    /\ sref = [s \in StreamNames |-> None] /\ task = [s \in StreamNames |-> <<>>]
    /\ lock = [s \in StreamNames |-> None] /\ url_issued = 0 /\ faults = 0 /\ refreshes = 0
    /\ served = [s \in StreamNames |-> {}] /\ burst = [s \in StreamNames |-> {}]
    /\ late = [s \in StreamNames |-> FALSE] /\ cpc = [s \in StreamNames |-> "unused"]
    /\ requests = [s \in StreamNames |-> 0] /\ init_answer = [s \in StreamNames |-> None]
    /\ assembled = [s \in StreamNames |-> <<>>] /\ output = "none"
    /\ stream_file = [s \in StreamNames |-> FALSE]
    /\ ffmpeg_out = NoOutput /\ ffmpeg_error = NoError
    /\ keep_segments_after_download = FALSE /\ work_folder = "exists"

\* ------------------------------------------------------------- models.py
AudioStream(stream_id) ==
    [stream_id |-> stream_id, human_name |-> "audio", media_type |-> "a", height |-> None,
     path |-> <<>>, downloaded_segments |-> <<>>]

VideoStream(stream_id, height) ==
    [stream_id |-> stream_id, human_name |-> "video", media_type |-> "v", height |-> height,
     path |-> <<>>, downloaded_segments |-> <<>>]

\* class Scene: the timing fields are not set before the boundaries are calculated.
Scene ==
    [start_timing |-> None, end_timing |-> None, start_segment |-> None, end_segment |-> None]

\* A scroller element of the m.aebn.net page: its two attributes, as text.
SceneElem(time_start, time_duration) ==
    [time_start |-> Str(time_start), time_duration |-> Str(time_duration)]

\* ---------------------------------------------------------------- movie.py
\* Movie.__init__ (movie.py) with the fields the segment range depends on;
\* total_duration_seconds is what _get_new_manifest_url scrapes.
MovieInit(scene_n, scene_padding, total_duration_seconds) ==
    [scene_n |-> scene_n, scene_padding |-> scene_padding,
     start_segment |-> None, end_segment |-> None,
     total_duration_seconds |-> total_duration_seconds, segment_duration |-> None,
     total_number_of_data_segments |-> None, scenes_boundaries |-> <<>>]

\* The scene variables of a state in which no scene is looked at.
SceneIdle ==
    /\ scene_elems = <<>> /\ scenes = <<>> /\ movie = MovieInit(None, None, 0)

\* ------------------------------------------------------ manifest_parser.py
\* Manifest.__init__
ManifestInit(target_height, force_resolution, total_duration_seconds) ==
    [target_height |-> target_height, force_resolution |-> force_resolution,
     total_duration_seconds |-> total_duration_seconds,
     base_stream_url |-> None, segment_duration |-> None,
     total_number_of_data_segments |-> None,
     video_stream |-> None, audio_stream |-> None, avaliable_resulutions |-> <<>>]

\* ---------------------------------------------------------- Python floats
\* A Python float is an IEEE-754 binary64 number. The values the program
\* computes on are zero and the positive normal numbers sig * 2^exp with a
\* significand of 53 bits. sig holds the significand shifted to the top of
\* SigLimbs limbs of LimbBits bits (56 bits: 2^55 <= sig < 2^56, the low
\* GuardBits bits zero), least significant limb first.
LimbBits == 14

SigLimbs == 4

GuardBits == 3

Limb == 2 ^ LimbBits

\* x < y for two limb sequences of one length, compared from limb i down.
RECURSIVE LimbLess(_, _, _)
LimbLess(x, y, i) ==
    IF i = 0 THEN FALSE
    ELSE IF x[i] # y[i] THEN x[i] < y[i]
    ELSE LimbLess(x, y, i - 1)

\* x - y for x >= y, from limb i up, with the borrow of the limbs below.
RECURSIVE LimbSub(_, _, _, _)
LimbSub(x, y, i, borrow) ==
    IF i > Len(x) THEN <<>>
    ELSE LET t == x[i] + Limb - y[i] - borrow
         IN  <<t % Limb>> \o LimbSub(x, y, i + 1, IF t < Limb THEN 1 ELSE 0)

\* x * d + carry for one limb d, from limb i up; the result has one limb more.
RECURSIVE LimbMul(_, _, _, _)
LimbMul(x, d, i, carry) ==
    IF i > Len(x) THEN <<carry>>
    ELSE <<(x[i] * d + carry) % Limb>> \o LimbMul(x, d, i + 1, (x[i] * d + carry) \div Limb)

\* x + carry, from limb i up, the carry out of the top limb dropped.
RECURSIVE LimbAdd(_, _, _)
LimbAdd(x, i, carry) ==
    IF i > Len(x) THEN <<>>
    ELSE <<(x[i] + carry) % Limb>> \o LimbAdd(x, i + 1, (x[i] + carry) \div Limb)

\* x \div 2
LimbHalf(x) ==
    [i \in DOMAIN x |->
        x[i] \div 2 + (IF i < Len(x) THEN (x[i + 1] % 2) * (Limb \div 2) ELSE 0)]

LimbZero == [i \in 1..SigLimbs |-> 0]

FloatZero == [sig |-> LimbZero, exp |-> 0]

\* The number of bits of n >= 0.
RECURSIVE BitLen(_)
BitLen(n) == IF n = 0 THEN 0 ELSE 1 + BitLen(n \div 2)

\* float(n) of an int 0 <= n < 2^28 (exact): the bits of n at the top of sig.
FloatOf(n) ==
    IF n = 0 THEN FloatZero
    ELSE LET len == BitLen(n)
             top == IF len <= LimbBits THEN n * 2 ^ (LimbBits - len)
                    ELSE n \div 2 ^ (len - LimbBits)
             next == IF len <= LimbBits THEN 0
                     ELSE (n % 2 ^ (len - LimbBits)) * 2 ^ (2 * LimbBits - len)
         IN  [sig |-> [i \in 1..SigLimbs |->
                          IF i = SigLimbs THEN top ELSE IF i = SigLimbs - 1 THEN next ELSE 0],
              exp |-> len - SigLimbs * LimbBits]

\* The greatest d <= qhat with d * v <= u, and the remainder u - d * v; prod is
\* qhat * v, and u has one limb more than v.
RECURSIVE Corrected(_, _, _, _)
Corrected(u, v, qhat, prod) ==
    IF ~LimbLess(u, prod, Len(u))
        THEN [d |-> qhat, r |-> SubSeq(LimbSub(u, prod, 1, 0), 1, Len(v))]
        ELSE Corrected(u, v, qhat - 1, LimbSub(prod, Append(v, 0), 1, 0))

\* The estimate of a quotient limb from the two top limbs of the remainder r;
\* with the top limb of v >= Limb / 2 it is at most 2 too large.
Estimate(r, v) ==
    IF (r[Len(v)] * Limb + r[Len(v) - 1]) \div v[Len(v)] > Limb - 1 THEN Limb - 1
    ELSE (r[Len(v)] * Limb + r[Len(v) - 1]) \div v[Len(v)]

DivStepFrom(r, v, qhat) == Corrected(<<0>> \o r, v, qhat, LimbMul(v, qhat, 1, 0))

\* One step of the long division by v of a remainder r < v: the next quotient
\* limb d = (r * Limb) \div v and the remainder left.
DivStep(r, v) == DivStepFrom(r, v, Estimate(r, v))

\* n steps of the long division: the quotient limbs put before q (least
\* significant limb first) and the last remainder.
RECURSIVE DivSteps(_, _, _, _)
RECURSIVE DivStepsNext(_, _, _, _)
DivStepsNext(step, v, q, n) == DivSteps(step.r, v, <<step.d>> \o q, n - 1)

DivSteps(r, v, q, n) ==
    IF n = 0 THEN [q |-> q, r |-> r] ELSE DivStepsNext(DivStep(r, v), v, q, n)

\* Round to nearest, ties to even: q is the quotient to SigLimbs limbs, its low
\* GuardBits bits beyond the 53 of the significand; inexact tells that the
\* division left a remainder.
RoundedNearestEven(q, inexact, exp) ==
    LET ulp == 2 ^ GuardBits
        low == q[1] % ulp
        kept == [q EXCEPT ![1] = @ - low]
        odd == (q[1] \div ulp) % 2 = 1
        up == \/ low > ulp \div 2
              \/ low = ulp \div 2 /\ (inexact \/ odd)
    IN  IF ~up THEN [sig |-> kept, exp |-> exp]
        ELSE IF LimbAdd(kept, 1, ulp) = LimbZero
            THEN [sig |-> [LimbZero EXCEPT ![SigLimbs] = Limb \div 2], exp |-> exp + 1]
        ELSE [sig |-> LimbAdd(kept, 1, ulp), exp |-> exp]

Rounded(dv, exp) == RoundedNearestEven(dv.q, dv.r # LimbZero, exp)

\* x / y of two floats, x >= 0 and y > 0: the quotient of the significands to
\* SigLimbs limbs (x.sig / y.sig lies in (1/2, 2); it is halved when >= 1),
\* rounded to the nearest float.
FloatDiv(x, y) ==
    IF x = FloatZero THEN FloatZero
    ELSE IF LimbLess(x.sig, y.sig, SigLimbs)
        THEN Rounded(DivSteps(x.sig, y.sig, <<>>, SigLimbs),
                     x.exp - y.exp - SigLimbs * LimbBits)
    ELSE Rounded(DivSteps(LimbHalf(x.sig), y.sig, <<>>, SigLimbs),
                 x.exp - y.exp - SigLimbs * LimbBits + 1)

\* A float 0 <= x < 2^28 as [int, frac]: the integer part and whether a
\* fractional part is left.
Split(x) ==
    LET n == SigLimbs * LimbBits + x.exp   \* bits before the binary point
        top == x.sig[SigLimbs]
        next == x.sig[SigLimbs - 1]
        below == \E i \in 1..(SigLimbs - 2) : x.sig[i] # 0
    IN  IF x = FloatZero THEN [int |-> 0, frac |-> FALSE]
        ELSE IF n <= 0 THEN [int |-> 0, frac |-> TRUE]
        ELSE IF n <= LimbBits
            THEN [int |-> top \div 2 ^ (LimbBits - n),
                  frac |-> top % 2 ^ (LimbBits - n) # 0 \/ next # 0 \/ below]
        ELSE [int |-> top * 2 ^ (n - LimbBits) + next \div 2 ^ (2 * LimbBits - n),
              frac |-> next % 2 ^ (2 * LimbBits - n) # 0 \/ below]

\* math.floor(x) and math.ceil(x)
Floor(x) == Split(x).int

Ceil(x) == IF Split(x).frac THEN Split(x).int + 1 ELSE Split(x).int

\* ceil(a / b) of two ints, a >= 0 and b > 0, in exact arithmetic.
CeilDiv(a, b) == (a + b - 1) \div b

\* _total_number_of_data_segments_calc, lines 53-56:
\* segment_duration = float(duration) / float(timescale).
segment_duration_calc(d) == FloatDiv(FloatOf(d.duration), FloatOf(d.timescale))

\* _total_number_of_data_segments_calc, lines 58-59:
\* ceil(total_duration_seconds / segment_duration), in floats.
total_number_of_data_segments_calc(d, total_duration_seconds) ==
    Ceil(FloatDiv(FloatOf(total_duration_seconds), segment_duration_calc(d)))

\* ---------------------------------------------------------- scene boundaries
\* The truth value of an optional int: None and 0 are false.
Truthy(x) == x # None /\ x # 0

\* One pass of the loop of calculate_scenes_boundaries, lines 60-63.
scene_boundaries(scene_el, segment_duration) ==
    [start_timing |-> IntOf(scene_el.time_start),
     end_timing |-> IntOf(scene_el.time_start) + IntOf(scene_el.time_duration),
     start_segment |-> Floor(FloatDiv(FloatOf(IntOf(scene_el.time_start)), segment_duration)),
     end_segment |-> Ceil(FloatDiv(FloatOf(IntOf(scene_el.time_start)
                                           + IntOf(scene_el.time_duration)),
                                   segment_duration))]

\* Movie.calculate_scenes_boundaries (movie_scraper.py): the i-th scroller
\* element sets the fields of the i-th scene.
calculate_scenes_boundaries(scs, elems, segment_duration) ==
    [i \in DOMAIN scs |->
        IF i \in DOMAIN elems THEN scene_boundaries(elems[i], segment_duration) ELSE scs[i]]

\* movie.py, lines 301-305, with the end of the scene not clamped.
padded_timings_end_unclamped(start_timing, end_timing, scene_padding, scene_n, total) ==
    IF Truthy(scene_padding) /\ Truthy(scene_n)
        THEN <<IF start_timing - scene_padding >= 0 THEN start_timing - scene_padding ELSE 0,
               end_timing + scene_padding>>
    ELSE <<start_timing, end_timing>>

\* movie.py, lines 301-305: the timings of a scene with the padding applied.
padded_timings(start_timing, end_timing, scene_padding, scene_n, total) ==
    IF Truthy(scene_padding) /\ Truthy(scene_n)
        THEN <<IF start_timing - scene_padding >= 0 THEN start_timing - scene_padding ELSE 0,
               IF end_timing + scene_padding <= total THEN end_timing + scene_padding
               ELSE total>>
    ELSE <<start_timing, end_timing>>

\* movie.py, lines 306-308: [start_segment, end_segment] of the timings.
segment_boundaries(timings, segment_duration) ==
    <<Floor(FloatDiv(FloatOf(timings[1]), segment_duration)),
      Ceil(FloatDiv(FloatOf(timings[2]), segment_duration))>>

\* Movie._calculate_scenes_boundaries (movie.py): one entry per scroller element.
movie_calculate_scenes_boundaries(elems, mv, segment_duration) ==
    [i \in DOMAIN elems |->
        segment_boundaries(
            padded_timings(IntOf(elems[i].time_start),
                           IntOf(elems[i].time_start) + IntOf(elems[i].time_duration),
                           mv.scene_padding, mv.scene_n, mv.total_duration_seconds),
            segment_duration)]

\* sorted(video_streams, key=height): stable insertion by height.
RECURSIVE InsertByHeight(_, _)
InsertByHeight(sorted, x) ==
    IF sorted = <<>> THEN <<x>>
    ELSE IF x.height < Head(sorted).height THEN <<x>> \o sorted
    ELSE <<Head(sorted)>> \o InsertByHeight(Tail(sorted), x)

RECURSIVE SortedByHeight(_)
SortedByHeight(vs) ==
    IF vs = <<>> THEN <<>>
    ELSE InsertByHeight(SortedByHeight(SubSeq(vs, 1, Len(vs) - 1)), Last(vs))

\* The representations in document order, with no sorted().
parse_and_sort_video_streams_unsorted(d) == d.video

parse_and_sort_video_streams(d) == SortedByHeight(d.video)

\* _find_best_good_audio_stream, line 69: the data segment of the probe.
data_segment_number(total) == total \div 2

\* The first stream id of the candidates whose probe (the initialization
\* segment and data segment n of the audio stream of that id) is valid; None
\* stands for RuntimeError("No valid audio stream found").
RECURSIVE FirstValid(_, _, _)
FirstValid(candidates, n, valid) ==
    IF candidates = <<>> THEN None
    ELSE IF <<Head(candidates).id, n>> \in valid THEN Head(candidates).id
    ELSE FirstValid(Tail(candidates), n, valid)

\* The probing with every candidate examined, the valid ones included.
audio_probe_downloads_all(candidates, n, valid) ==
    [k \in 1..(2 * Len(candidates)) |->
        <<candidates[(k + 1) \div 2].id, IF k % 2 = 1 THEN None ELSE n>>]

\* _find_best_good_audio_stream, lines 64-74: the session.get calls of the loop,
\* the initialization segment and data segment n of each candidate up to the
\* first valid one.
RECURSIVE audio_probe_downloads(_, _, _)
audio_probe_downloads(candidates, n, valid) ==
    IF candidates = <<>> THEN <<>>
    ELSE <<<<Head(candidates).id, None>>, <<Head(candidates).id, n>>>>
             \o (IF <<Head(candidates).id, n>> \in valid THEN <<>>
                 ELSE audio_probe_downloads(Tail(candidates), n, valid))

\* The candidates in document order, with no regard to the height.
find_best_good_audio_stream_unordered(video_streams, total, valid) ==
    FirstValid(video_streams, data_segment_number(total), valid)

\* _find_best_good_audio_stream: from the highest video height down.
find_best_good_audio_stream(video_streams, total, valid) ==
    FirstValid(Reversed(video_streams), data_segment_number(total), valid)

\* next((x for x in seq if pred), None) as an index into seq, 0 for None.
RECURSIVE FirstIndex(_, _, _)
FirstIndex(seq, Pred(_), i) ==
    IF i > Len(seq) THEN 0
    ELSE IF Pred(seq[i]) THEN i
    ELSE FirstIndex(seq, Pred, i + 1)

RECURSIVE LastIndex(_, _, _)
LastIndex(seq, Pred(_), i) ==
    IF i < 1 THEN 0
    ELSE IF Pred(seq[i]) THEN i
    ELSE LastIndex(seq, Pred, i - 1)

\* The choice without reversed(): the first height <= target from below.
select_video_stream_unreversed(video_streams, target_height, force_resolution) ==
    IF target_height = 0 THEN IF video_streams = <<>> THEN 0 ELSE 1
    ELSE IF target_height = None THEN Len(video_streams)
    ELSE LET exact == FirstIndex(video_streams, LAMBDA x : x.height = target_height, 1)
         IN  IF exact = 0 /\ force_resolution THEN 0
             ELSE FirstIndex(video_streams, LAMBDA x : x.height <= target_height, 1)

\* The nearest height taken from above: the first height >= target.
select_video_stream_from_above(video_streams, target_height, force_resolution) ==
    IF target_height = 0 THEN IF video_streams = <<>> THEN 0 ELSE 1
    ELSE IF target_height = None THEN Len(video_streams)
    ELSE LET exact == FirstIndex(video_streams, LAMBDA x : x.height = target_height, 1)
         IN  IF exact = 0 /\ force_resolution THEN 0
             ELSE FirstIndex(video_streams, LAMBDA x : x.height >= target_height, 1)

\* The selection with no regard to force_resolution.
select_video_stream_unforced(video_streams, target_height, force_resolution) ==
    IF target_height = 0 THEN IF video_streams = <<>> THEN 0 ELSE 1
    ELSE IF target_height = None THEN Len(video_streams)
    ELSE LastIndex(video_streams, LAMBDA x : x.height <= target_height, Len(video_streams))

\* parse_content lines 32-48: the index in the sorted video_streams of the chosen
\* representation, 0 when the selection raises (RuntimeError, or the TypeError of
\* unpacking None when no height is <= target_height, or IndexError on no stream).
select_video_stream(video_streams, target_height, force_resolution) ==
    IF target_height = 0 THEN IF video_streams = <<>> THEN 0 ELSE 1
    ELSE IF target_height = None THEN Len(video_streams)
    ELSE LET exact == FirstIndex(video_streams, LAMBDA x : x.height = target_height, 1)
         IN  IF exact = 0 /\ force_resolution THEN 0
             ELSE LastIndex(video_streams, LAMBDA x : x.height <= target_height,
                            Len(video_streams))

Heights(video_streams) == [i \in DOMAIN video_streams |-> video_streams[i].height]

\* parse_content, lines 30-48, on the manifest m1 that lines 27-29 leave:
\* [m, objs, raised]. The assignments made before an exception stay made.
parse_content_streams(m1, heap, video_streams, valid) ==
    LET audio_stream_id ==
            find_best_good_audio_stream(video_streams, m1.total_number_of_data_segments, valid)
        heap2 == Append(heap, AudioStream(audio_stream_id))
        m2 == [m1 EXCEPT !.audio_stream = Len(heap2)]
        k == select_video_stream(video_streams, m1.target_height, m1.force_resolution)
        heap3 == Append(heap2, VideoStream(video_streams[k].id, video_streams[k].height))
        downloads ==
            audio_probe_downloads(Reversed(video_streams),
                                  data_segment_number(m1.total_number_of_data_segments), valid)
    IN  IF audio_stream_id = None
            THEN [m |-> m1, objs |-> heap, raised |-> TRUE, probes |-> downloads]
        ELSE IF k = 0 THEN [m |-> m2, objs |-> heap2, raised |-> TRUE, probes |-> downloads]
        ELSE [m |-> [m2 EXCEPT !.video_stream = Len(heap3)], objs |-> heap3, raised |-> FALSE,
              probes |-> downloads]

\* Manifest.parse_content
parse_content(m, heap, d, valid) ==
    parse_content_streams(
        [m EXCEPT !.segment_duration = segment_duration_calc(d),
                  !.total_number_of_data_segments =
                      total_number_of_data_segments_calc(d, m.total_duration_seconds),
                  !.avaliable_resulutions = Heights(parse_and_sort_video_streams(d))],
        heap, parse_and_sort_video_streams(d), valid)

\* ----------------------------------------------------------------- SpecSel
\* All sequences of distinct elements of S of length <= n.
RECURSIVE DistinctSeqs(_, _)
DistinctSeqs(S, n) ==
    IF n = 0 THEN {<<>>}
    ELSE LET shorter == DistinctSeqs(S, n - 1)
         IN  shorter \cup UNION {{Append(q, x) : x \in S \ Range(q)} : q \in shorter}

\* A manifest document: the video representations in document order (ids are
\* the positions), and the SegmentTemplate attributes.
DocOf(heights) ==
    [video |-> [i \in DOMAIN heights |-> [id |-> i, height |-> heights[i]]],
     timescale |-> 1, duration |-> 2]

SelInit ==
    /\ \E hs \in DistinctSeqs(1..MaxHeight, MaxHeight) : doc = DocOf(hs)
    /\ audio_valid \in SUBSET ((1..Len(doc.video)) \X {1, 2})
    /\ \E th \in {None} \cup (0..(MaxHeight + 1)), force \in BOOLEAN :
           manifest = ManifestInit(th, force, 3)
    /\ objs = <<>>
    /\ mpc = "new" /\ probes = <<>>
    /\ SceneIdle
    /\ asm_files = <<>> /\ asm_out = <<>> /\ asm_pc = "start"
    /\ RunIdle
    /\ ReqIdle

\* Manifest.process_manifest on a fresh Manifest (delivery and download succeed).
SelProcessManifest ==
    /\ mpc = "new"
    /\ \E r \in {parse_content([manifest EXCEPT !.base_stream_url = 1], objs, doc,
                                audio_valid)} :
           /\ manifest' = r.m
           /\ objs' = r.objs
           /\ mpc' = IF r.raised THEN "error" ELSE "ok"
           /\ probes' = probes \o r.probes
    /\ UNCHANGED <<doc, audio_valid, sceneVars, asmVars, legacy, joinVars, reqVars, runVars>>

SelNext == SelProcessManifest

SpecSel == SelInit /\ [][SelNext]_vars

\* ---------------------------------------------------------------- SpecCalc
\* One representation, every audio probe valid; the SegmentTemplate attributes
\* and the duration of the movie vary.
CalcInit ==
    /\ \E t \in 1..MaxTimescale, d \in 1..MaxDuration :
           doc = [DocOf(<<1>>) EXCEPT !.timescale = t, !.duration = d]
    /\ audio_valid = {1} \X (0..(MaxSeconds * MaxTimescale))
    /\ \E secs \in 0..MaxSeconds : manifest = ManifestInit(None, FALSE, secs)
    /\ objs = <<>>
    /\ mpc = "new" /\ probes = <<>>
    /\ \E start \in 0..MaxSeconds, len \in 0..MaxSceneLen :
           scene_elems = <<SceneElem(start, len)>>
    /\ scenes = <<Scene>>
    /\ movie = MovieInit(None, None, 0)
    /\ asm_files = <<>> /\ asm_out = <<>> /\ asm_pc = "start"
    /\ RunIdle
    /\ ReqIdle

\* Downloader._process_manifest: Manifest(...).process_manifest(), then
\* scraped_movie.calculate_scenes_boundaries(self.manifest.segment_duration).
CalcProcessManifest ==
    /\ mpc = "new"
    /\ \E r \in {parse_content([manifest EXCEPT !.base_stream_url = 1], objs, doc,
                                audio_valid)} :
           /\ manifest' = r.m
           /\ objs' = r.objs
           /\ mpc' = IF r.raised THEN "error" ELSE "ok"
           /\ probes' = probes \o r.probes
           /\ scenes' = IF r.raised THEN scenes
                         ELSE calculate_scenes_boundaries(scenes, scene_elems,
                                                          r.m.segment_duration)
    /\ UNCHANGED <<doc, audio_valid, scene_elems, movie, asmVars, legacy, joinVars, reqVars, runVars>>

CalcNext == CalcProcessManifest

SpecCalc == CalcInit /\ [][CalcNext]_vars

\* ----------------------------------------------------------------- SpecAsm
AsmInit ==
    /\ \E t \in {"a", "v"}, sid \in 1..2,
          idx \in DistinctSeqs({1, 2, 9, 10, MaxAsmIndex}, MaxAsmLen), pos \in 0..MaxAsmLen :
           /\ pos <= Len(idx)
           /\ asm_files = SubSeq([i \in DOMAIN idx |-> SegmentPath(t, sid, idx[i])], 1, pos)
                            \o <<SegmentPath(t, sid, None)>>
                            \o SubSeq([i \in DOMAIN idx |-> SegmentPath(t, sid, idx[i])],
                                      pos + 1, Len(idx))
    /\ asm_out = <<>>
    /\ asm_pc = "start"
    /\ doc = DocOf(<<1>>) /\ audio_valid = {} /\ manifest = ManifestInit(None, FALSE, 3)
    /\ objs = <<>> /\ mpc = "new" /\ probes = <<>>
    /\ SceneIdle
    /\ RunIdle
    /\ ReqIdle

\* Downloader._concat_stream on a stream whose downloaded_segments is asm_files.
AsmConcat ==
    /\ asm_pc = "start"
    /\ asm_out' = concat_segments(asm_files)
    /\ asm_pc' = "done"
    /\ UNCHANGED <<asm_files, probes, joinVars, legacy, reqVars, selVars, sceneVars, runVars>>

AsmNext == AsmConcat

SpecAsm == AsmInit /\ [][AsmNext]_vars

\* -------------------------------------------------------------------- Spec
\* Downloader.run on a stable manifest: two representations, the asset lasting
\* 1 s in segments of 2 s, hence total_number_of_data_segments = 1.
DocStable == DocOf(<<1, 2>>)

\* The start_segment / end_segment overrides a run is given.
RangeChoices == {<<0, None>>, <<0, 0>>, <<1, None>>, <<1, 2>>, <<2, None>>}

Statuses == {200, 403, 404, 500}

\* One answer of the remote side; a non-success answer uses up the fault bound.
Answer(status) == status = 200 \/ faults < MaxFaults

CountFault(status) == IF status = 200 THEN faults ELSE faults + 1

\* The segment files a previous run may have left in the work directory.
SegmentFiles(numbers) ==
    {SegmentPath(t, 2, n) : t \in {"a", "v"}, n \in numbers}

OldFiles(paths) == [p \in paths |-> "old"]

Exists(p) == p \in DOMAIN disk

\* The stream object a _download_stream call works on, and the path of one of
\* its segments.
StreamOf(s) == objs[sref[s]]

SegPath(s, n) == SegmentPath(StreamOf(s).media_type, StreamOf(s).stream_id, n)

\* stream.downloaded_segments.append(segment_path)
Recorded(heap, ref, p) == [heap EXCEPT ![ref].downloaded_segments = Append(@, p)]

\* streams_to_download / streams_to_concat: the streams target_stream selects.
Selected(s) == target_stream = "both" \/ target_stream = s

\* self.manifest.audio_stream / self.manifest.video_stream
ManifestStream(m, s) == IF s = "audio" THEN m.audio_stream ELSE m.video_stream

\* _download_segment, lines 395-407, with every 404 tolerated.
download_segment_result_any404(status, segment_number, total) ==
    IF status = 200 THEN "saved"
    ELSE IF status = 404 THEN "skipped"
    ELSE IF status = 403 THEN "Forbidden"
    ELSE "RuntimeError"

\* _download_segment, lines 395-407: what the response leads to.
download_segment_result(status, segment_number, total) ==
    IF status = 200 THEN "saved"
    ELSE IF status = 404 /\ segment_number = total THEN "skipped"
    ELSE IF status = 403 THEN "Forbidden"
    ELSE "RuntimeError"

\* _download_segment, line 388: the file is there and is not to be overwritten.
found_on_disk_no_check(p) == FALSE

\* _download_segment with the test of overwrite_existing_files left out.
found_on_disk_ignoring_overwrite(p) == Exists(p)

found_on_disk(p) == Exists(p) /\ ~overwrite_existing_files

RunInit ==
    /\ rpc = "init"
    /\ work_folder = "exists"
    /\ target_stream \in {"both", "audio", "video"}
    /\ overwrite_existing_files \in BOOLEAN
    /\ threads \in 1..MaxThreads
    /\ \E r \in RangeChoices : start_segment = r[1] /\ end_segment = r[2]
    /\ segment_range = <<0, 0>>
    /\ disk \in {OldFiles({}), OldFiles(SegmentFiles({None, 1})),
                 OldFiles(SegmentFiles({None, 0, 1, 2}))}
    /\ manifest = ManifestInit(None, FALSE, 1)
    /\ objs = <<>>
    /\ doc = DocStable
    /\ audio_valid = {<<1, 0>>, <<2, 0>>}
    /\ mpc = "new" /\ probes = <<>>
    /\ SceneIdle
    /\ ReqIdle
    /\ spc = [s \in StreamNames |-> "unused"]
    /\ sref = [s \in StreamNames |-> None]
    /\ task = [s \in StreamNames |-> <<>>]
    /\ lock = [s \in StreamNames |-> None]
    /\ url_issued = 0 /\ faults = 0 /\ refreshes = 0
    /\ served = [s \in StreamNames |-> {}]
    /\ burst = [s \in StreamNames |-> {}]
    /\ late = [s \in StreamNames |-> FALSE]
    /\ requests = [s \in StreamNames |-> 0]
    /\ init_answer = [s \in StreamNames |-> None]
    /\ cpc = [s \in StreamNames |-> "unused"]
    /\ assembled = [s \in StreamNames |-> <<>>]
    /\ stream_file = [s \in StreamNames |-> FALSE]
    /\ output = "none"
    /\ ffmpeg_out = NoOutput /\ ffmpeg_error = NoError
    /\ asm_files = <<>> /\ asm_out = <<>> /\ asm_pc = "start"

\* Downloader.run with keep_segments_after_download left at its default.
Init == RunInit /\ keep_segments_after_download = FALSE

\* Downloader.run with a finally clause that runs _cleanup.
run_next_finally_cleanup(step_raised, next) == IF step_raised THEN "cleanup" ELSE next

\* Downloader.run, lines 92-106: the steps are called one after the other with
\* no try around them, so an exception of a step leaves run.
run_next(step_raised, next) == IF step_raised THEN "error" ELSE next

\* run -> _process_manifest: Manifest(...).process_manifest(); the delivery
\* request or the manifest download may fail.
RunProcessManifest(ok) ==
    /\ rpc = "init"
    /\ ok \/ faults < MaxFaults
    /\ IF ok
         THEN \E r \in {parse_content([manifest EXCEPT !.base_stream_url = url_issued + 1],
                                        objs, doc, audio_valid)} :
                  /\ manifest' = r.m
                  /\ objs' = r.objs
                  /\ mpc' = IF r.raised THEN "error" ELSE "ok"
                  /\ probes' = probes \o r.probes
                  /\ scenes' = IF r.raised THEN scenes
                                ELSE calculate_scenes_boundaries(scenes, scene_elems,
                                                                 r.m.segment_duration)
                  /\ rpc' = IF r.raised THEN "error" ELSE "paths"
                  /\ url_issued' = url_issued + 1
                  /\ faults' = faults
         ELSE /\ rpc' = "error" /\ mpc' = "error" /\ faults' = faults + 1
              /\ UNCHANGED <<manifest, objs, url_issued, scenes, probes>>
    /\ UNCHANGED <<doc, audio_valid, scene_elems, movie, asmVars, legacy, joinVars, reqVars, cfgVars, work_folder, muxVars, segment_range, disk, spc, sref, task,
                   lock, refreshes, ghostVars, cpc, assembled, stream_file, output>>

\* run -> _create_dirs, _set_stream_paths
RunSetStreamPaths ==
    /\ rpc = "paths"
    /\ objs' = [objs EXCEPT
                  ![manifest.audio_stream].path =
                      StreamPath(objs[manifest.audio_stream].media_type,
                                 objs[manifest.audio_stream].stream_id),
                  ![manifest.video_stream].path =
                      StreamPath(objs[manifest.video_stream].media_type,
                                 objs[manifest.video_stream].stream_id)]
    /\ rpc' = "ready"
    /\ UNCHANGED <<manifest, doc, audio_valid, mpc, sceneVars, asmVars, legacy, joinVars, probes, reqVars, cfgVars, work_folder, muxVars, segment_range, disk, spc,
                   sref, task, lock, url_issued, faults, refreshes, ghostVars, cpc, assembled,
                   stream_file, output>>

\* _download_streams, lines 318-321: "x or default" takes the default for 0 and None.
resolve_range(start, end, total) ==
    <<IF start = None \/ start = 0 THEN 0 ELSE start,
      IF end = None \/ end = 0 THEN total ELSE end>>

\* run -> _download_streams up to the submission of the _download_stream calls.
RunDownloadStreams ==
    /\ rpc = "ready"
    /\ segment_range' = resolve_range(start_segment, end_segment,
                                      manifest.total_number_of_data_segments)
    /\ spc' = [s \in StreamNames |-> IF Selected(s) THEN "start" ELSE "unused"]
    /\ sref' = [s \in StreamNames |-> IF Selected(s) THEN ManifestStream(manifest, s) ELSE None]
    /\ rpc' = "download"
    /\ UNCHANGED <<selVars, sceneVars, asmVars, legacy, joinVars, probes, reqVars, cfgVars, work_folder, muxVars, disk, task, lock, url_issued, faults, refreshes,
                   ghostVars, cpc, assembled, stream_file, output>>

\* The futures of _download_stream, line 367: one queued task per segment number.
\* pc: where download_task is; url: the base_stream_url of its last request;
\* nreq: its requests so far; a1, a2: the status answered to its first and second
\* request; refresh: "no", then "running", "ok" or "raised" for its process_manifest.
NewTask == [pc |-> "queued", url |-> None, nreq |-> 0, a1 |-> None, a2 |-> None,
            refresh |-> "no"]

Submitted == [i \in segment_range[1]..segment_range[2] |-> NewTask]

\* _download_stream, line 347: the initialization segment, up to its request.
StreamBegin(s) ==
    /\ rpc = "download" /\ spc[s] = "start"
    /\ IF found_on_disk(SegPath(s, None))
         THEN /\ objs' = Recorded(objs, sref[s], SegPath(s, None))
              /\ served' = [served EXCEPT ![s] = @ \cup {None}]
              /\ spc' = [spc EXCEPT ![s] = "pool"]
              /\ task' = [task EXCEPT ![s] = Submitted]
         ELSE /\ spc' = [spc EXCEPT ![s] = "init_req"]
              /\ UNCHANGED <<objs, served, task>>
    /\ requests' = IF found_on_disk(SegPath(s, None)) THEN requests
                   ELSE [requests EXCEPT ![s] = @ + 1]
    /\ UNCHANGED <<manifest, doc, audio_valid, mpc, sceneVars, asmVars, legacy, joinVars, probes, reqVars, rpc, cfgVars, work_folder, muxVars, segment_range, disk,
                   sref, lock, url_issued, faults, refreshes, burst, late, init_answer, cpc,
                   assembled, stream_file, output>>

\* _download_stream with the Forbidden of the initialization segment passed
\* over, the data segments being left to refresh the manifest.
stream_after_init_forbidden_ignored(res) ==
    IF res \in {"saved", "Forbidden"} THEN "pool" ELSE "error"

\* _download_stream with the exception of the initialization segment's
\* _download_segment caught and passed over.
stream_after_init_swallowing(res) == "pool"

\* _download_stream, line 347: the call of _download_segment is not guarded, so
\* its exception leaves _download_stream before the pool is set up.
stream_after_init(res) == IF res = "saved" THEN "pool" ELSE "error"

\* _download_stream, lines 347-367: the answer to the initialization segment's
\* request; a Forbidden or RuntimeError leaves _download_stream at once.
StreamInitResponse(s, status) ==
    /\ rpc = "download" /\ spc[s] = "init_req"
    /\ Answer(status)
    /\ faults' = CountFault(status)
    /\ init_answer' = [init_answer EXCEPT ![s] = status]
    /\ LET res == download_segment_result(status, None, manifest.total_number_of_data_segments)
       IN  /\ IF res = "saved"
                THEN /\ disk' = (SegPath(s, None) :> "new") @@ disk
                     /\ objs' = Recorded(objs, sref[s], SegPath(s, None))
                     /\ served' = [served EXCEPT ![s] = @ \cup {None}]
                ELSE UNCHANGED <<disk, objs, served>>
           /\ spc' = [spc EXCEPT ![s] = stream_after_init(res)]
           /\ task' = IF stream_after_init(res) = "pool" THEN [task EXCEPT ![s] = Submitted]
                      ELSE task
    /\ UNCHANGED <<manifest, doc, audio_valid, mpc, sceneVars, asmVars, legacy, joinVars, probes, reqVars, rpc, cfgVars, work_folder, muxVars, segment_range, sref,
                   lock, url_issued, refreshes, burst, late, requests, cpc, assembled, stream_file, output>>

Running(s) == {i \in DOMAIN task[s] : task[s][i].pc \notin {"queued", "done", "failed"}}

Finished(s) == \A i \in DOMAIN task[s] : task[s][i].pc \in {"done", "failed"}

\* A pool that starts a thread for every submitted task.
pool_has_idle_worker_unbounded(running, max_workers) == TRUE

\* ThreadPoolExecutor(max_workers=self.threads), line 366: a queued task is
\* taken only by a worker that runs no task.
pool_has_idle_worker(running, max_workers) == Cardinality(running) < max_workers

\* _download_segment with the URL of the task's first request kept for its retry.
segment_base_url_cached(m, first_url) ==
    IF first_url = None THEN m.base_stream_url ELSE first_url

\* _download_segment, line 386: segment_url is built from
\* self.manifest.base_stream_url as it is when the call is made.
segment_base_url(m, first_url) == m.base_stream_url

\* A worker of the pool takes the next queued task (the queue is first in,
\* first out) and runs download_task up to its first request. Raising out of
\* the with block (spc = "raised") leaves the queued tasks in the queue.
TaskStart(s, i) ==
    /\ spc[s] \in {"pool", "raised"}
    /\ i \in DOMAIN task[s] /\ task[s][i].pc = "queued"
    /\ \A j \in DOMAIN task[s] : j < i => task[s][j].pc # "queued"
    /\ pool_has_idle_worker(Running(s), threads)
    /\ IF found_on_disk(SegPath(s, i))
         THEN /\ objs' = Recorded(objs, sref[s], SegPath(s, i))
              /\ served' = [served EXCEPT ![s] = @ \cup {i}]
              /\ task' = [task EXCEPT ![s][i].pc = "done"]
              /\ UNCHANGED <<late, requests>>
         ELSE /\ task' = [task EXCEPT ![s][i].pc = "req1",
                                      ![s][i].url = segment_base_url(manifest, task[s][i].url),
                                      ![s][i].nreq = 1]
              /\ late' = [late EXCEPT ![s] = @ \/ spc[s] = "raised"]
              /\ requests' = [requests EXCEPT ![s] = @ + 1]
              /\ UNCHANGED <<objs, served>>
    /\ UNCHANGED <<manifest, doc, audio_valid, mpc, sceneVars, asmVars, legacy, joinVars, probes, reqVars, rpc, cfgVars, work_folder, muxVars, segment_range, disk,
                   spc, sref, lock, url_issued, faults, refreshes, burst, init_answer, cpc,
                   assembled, stream_file, output>>

\* A handler that reacts to every exception of the first request, not to
\* Forbidden alone.
first_outcome_except_any(res) ==
    IF res \in {"saved", "skipped"} THEN "done" ELSE "forbidden"

\* download_task, lines 357-359: only Forbidden is caught, everything else the
\* first _download_segment raises ends the task.
first_outcome(res) ==
    CASE res = "saved" -> "done"
      [] res = "skipped" -> "done"
      [] res = "Forbidden" -> "forbidden"
      [] OTHER -> "failed"

\* A handler around the second call that sends a task with another Forbidden
\* back to the refresh.
retry_outcome_refresh_loop(res) ==
    IF res \in {"saved", "skipped"} THEN "done"
    ELSE IF res = "Forbidden" THEN "forbidden" ELSE "failed"

\* A handler that catches the Forbidden of the retry as well and starts over.
retry_outcome_again(res) == first_outcome(res)

\* download_task, lines 360-364: nothing the second _download_segment raises is
\* caught.
retry_outcome(res) == IF res \in {"saved", "skipped"} THEN "done" ELSE "failed"

\* download_task, lines 357-359: the answer to the first request.
TaskResponse(s, i, status) ==
    /\ i \in DOMAIN task[s] /\ task[s][i].pc = "req1"
    /\ Answer(status)
    /\ faults' = CountFault(status)
    /\ LET res == download_segment_result(status, i, manifest.total_number_of_data_segments)
       IN  /\ task' = [task EXCEPT ![s][i].a1 = status,
                                    ![s][i].pc = first_outcome(res)]
           /\ IF res = "saved"
                THEN /\ disk' = (SegPath(s, i) :> "new") @@ disk
                     /\ objs' = Recorded(objs, sref[s], SegPath(s, i))
                     /\ served' = [served EXCEPT ![s] = @ \cup {i}]
                ELSE UNCHANGED <<disk, objs, served>>
           /\ burst' = IF res = "Forbidden" /\ refreshes = 0
                         THEN [burst EXCEPT ![s] = @ \cup {i}] ELSE burst
    /\ UNCHANGED <<manifest, doc, audio_valid, mpc, sceneVars, asmVars, legacy, joinVars, probes, reqVars, rpc, cfgVars, work_folder, muxVars, segment_range, spc,
                   sref, lock, url_issued, refreshes, late, requests, init_answer, cpc,
                   assembled, stream_file, output>>

\* A lock that is acquired and released by hand, the release being skipped when
\* the guarded statements raise.
manifest_lock_after_leaking(l, s, raised) == IF raised THEN l ELSE [l EXCEPT ![s] = None]

\* download_task, line 360: "with manifest_lock:" releases the lock of the
\* _download_stream call however the block is left, by return or by exception.
manifest_lock_after(l, s, raised) == [l EXCEPT ![s] = None]

\* download_task, lines 360-361 and process_manifest, lines 95-96: the task
\* enters manifest_lock and asks the delivery endpoint for a new signed URL; a
\* failure of that request leaves the with block with the exception.
TaskRefreshDeliver(s, i, ok) ==
    /\ i \in DOMAIN task[s] /\ task[s][i].pc = "forbidden"
    /\ lock[s] = None
    /\ ok \/ faults < MaxFaults
    /\ refreshes' = refreshes + 1
    /\ IF ok
         THEN /\ manifest' = [manifest EXCEPT !.base_stream_url = url_issued + 1]
              /\ url_issued' = url_issued + 1
              /\ lock' = [lock EXCEPT ![s] = i]
              /\ task' = [task EXCEPT ![s][i].pc = "parse", ![s][i].refresh = "running"]
              /\ faults' = faults
         ELSE /\ task' = [task EXCEPT ![s][i].pc = "failed", ![s][i].refresh = "raised"]
              /\ faults' = faults + 1
              /\ UNCHANGED <<manifest, url_issued, lock>>
    /\ UNCHANGED <<objs, doc, audio_valid, mpc, sceneVars, asmVars, legacy, joinVars, probes, reqVars, rpc, cfgVars, work_folder, muxVars, segment_range, disk, spc,
                   sref, ghostVars, cpc, assembled, stream_file, output>>

\* process_manifest, lines 97-98: the manifest is downloaded and parsed;
\* parse_content constructs the AudioStream and the VideoStream anew.
TaskRefreshParse(s, i, ok) ==
    /\ i \in DOMAIN task[s] /\ task[s][i].pc = "parse"
    /\ ok \/ faults < MaxFaults
    /\ IF ok
         THEN \E r \in {parse_content(manifest, objs, doc, audio_valid)} :
                  /\ manifest' = r.m
                  /\ objs' = r.objs
                  /\ task' = [task EXCEPT ![s][i].pc = IF r.raised THEN "failed" ELSE "parsed",
                                           ![s][i].refresh = IF r.raised THEN "raised" ELSE "ok"]
                  /\ lock' = IF r.raised THEN manifest_lock_after(lock, s, TRUE) ELSE lock
                  /\ probes' = probes \o r.probes
                  /\ faults' = faults
         ELSE /\ task' = [task EXCEPT ![s][i].pc = "failed", ![s][i].refresh = "raised"]
              /\ lock' = manifest_lock_after(lock, s, TRUE)
              /\ faults' = faults + 1
              /\ UNCHANGED <<manifest, objs, probes>>
    /\ UNCHANGED <<doc, audio_valid, mpc, sceneVars, asmVars, legacy, joinVars, reqVars, rpc, cfgVars, work_folder, muxVars, segment_range, disk, spc, sref,
                   url_issued, refreshes, ghostVars, cpc, assembled, stream_file, output>>

\* download_task, line 363: the second _download_segment call, inside the lock,
\* up to its request.
TaskRetry(s, i) ==
    /\ i \in DOMAIN task[s] /\ task[s][i].pc = "parsed"
    /\ IF found_on_disk(SegPath(s, i))
         THEN /\ objs' = Recorded(objs, sref[s], SegPath(s, i))
              /\ served' = [served EXCEPT ![s] = @ \cup {i}]
              /\ task' = [task EXCEPT ![s][i].pc = "done"]
              /\ lock' = manifest_lock_after(lock, s, FALSE)
              /\ UNCHANGED <<late, requests>>
         ELSE /\ task' = [task EXCEPT ![s][i].pc = "req2",
                                      ![s][i].url = segment_base_url(manifest, task[s][i].url),
                                      ![s][i].nreq = @ + 1]
              /\ late' = [late EXCEPT ![s] = @ \/ spc[s] = "raised"]
              /\ requests' = [requests EXCEPT ![s] = @ + 1]
              /\ UNCHANGED <<objs, served, lock>>
    /\ UNCHANGED <<manifest, doc, audio_valid, mpc, sceneVars, asmVars, legacy, joinVars, probes, reqVars, rpc, cfgVars, work_folder, muxVars, segment_range, disk,
                   spc, sref, url_issued, faults, refreshes, burst, init_answer, cpc, assembled,
                   stream_file, output>>

\* download_task, lines 363-364: the answer to the second request; a Forbidden
\* is not caught any more. Leaving the with block releases manifest_lock.
TaskRetryResponse(s, i, status) ==
    /\ i \in DOMAIN task[s] /\ task[s][i].pc = "req2"
    /\ Answer(status)
    /\ faults' = CountFault(status)
    /\ LET res == download_segment_result(status, i, manifest.total_number_of_data_segments)
       IN  /\ task' = [task EXCEPT ![s][i].a2 = status, ![s][i].pc = retry_outcome(res)]
           /\ lock' = manifest_lock_after(lock, s, res \notin {"saved", "skipped"})
           /\ IF res = "saved"
                THEN /\ disk' = (SegPath(s, i) :> "new") @@ disk
                     /\ objs' = Recorded(objs, sref[s], SegPath(s, i))
                     /\ served' = [served EXCEPT ![s] = @ \cup {i}]
                ELSE UNCHANGED <<disk, objs, served>>
    /\ UNCHANGED <<manifest, doc, audio_valid, mpc, sceneVars, asmVars, legacy, joinVars, probes, reqVars, rpc, cfgVars, work_folder, muxVars, segment_range, spc,
                   sref, url_issued, refreshes, burst, late, requests, init_answer, cpc,
                   assembled, stream_file, output>>

\* _download_stream, lines 369-374: as_completed hands over a failed future and
\* future.result() raises out of the loop.
StreamRaise(s) ==
    /\ spc[s] = "pool"
    /\ \E i \in DOMAIN task[s] : task[s][i].pc = "failed"
    /\ spc' = [spc EXCEPT ![s] = "raised"]
    /\ UNCHANGED <<selVars, sceneVars, asmVars, legacy, joinVars, probes, reqVars, rpc, cfgVars, work_folder, muxVars, segment_range, disk, sref, task, lock,
                   url_issued, faults, refreshes, ghostVars, cpc, assembled, stream_file, output>>

\* The with block of line 366 is left with the exception: the executor's
\* shutdown(wait=True) returns once every submitted task has run.
StreamJoin(s) ==
    /\ spc[s] = "raised"
    /\ Finished(s)
    /\ spc' = [spc EXCEPT ![s] = "error"]
    /\ UNCHANGED <<selVars, sceneVars, asmVars, legacy, joinVars, probes, reqVars, rpc, cfgVars, work_folder, muxVars, segment_range, disk, sref, task, lock,
                   url_issued, faults, refreshes, ghostVars, cpc, assembled, stream_file, output>>

\* _download_stream, lines 369-377: every future has been handed over without
\* an exception.
StreamDone(s) ==
    /\ spc[s] = "pool"
    /\ \A i \in DOMAIN task[s] : task[s][i].pc = "done"
    /\ spc' = [spc EXCEPT ![s] = "done"]
    /\ UNCHANGED <<selVars, sceneVars, asmVars, legacy, joinVars, probes, reqVars, rpc, cfgVars, work_folder, muxVars, segment_range, disk, sref, task, lock,
                   url_issued, faults, refreshes, ghostVars, cpc, assembled, stream_file, output>>

\* An executor whose shutdown does not wait for the running futures.
download_streams_raises_at_once == \E s \in StreamNames : spc[s] = "error"

\* _download_streams, lines 332-340: future.result() re-raised the exception of
\* a _download_stream; leaving the with block is shutdown(wait=True), which
\* returns when the other future has ended too.
download_streams_raises ==
    /\ \E s \in StreamNames : spc[s] = "error"
    /\ \A s \in StreamNames : spc[s] \in {"unused", "done", "error"}

\* _download_streams, lines 332-340: a _download_stream future raised; leaving the
\* with block waits for the other stream's future, then the exception leaves run.
RunDownloadFailed ==
    /\ rpc = "download"
    /\ download_streams_raises
    /\ rpc' = run_next(TRUE, "concat")
    /\ UNCHANGED <<selVars, sceneVars, asmVars, legacy, joinVars, probes, reqVars, cfgVars, work_folder, muxVars, segment_range, disk, spc, sref, task, lock,
                   url_issued, faults, refreshes, ghostVars, cpc, assembled, stream_file, output>>

\* A loop over as_completed that logs the exception and does not re-raise it.
download_streams_returns_swallowing ==
    \A s \in StreamNames : spc[s] \in {"unused", "done", "error"}

\* _download_streams, lines 334-340, returns: every future.result() returned.
download_streams_returns == \A s \in StreamNames : spc[s] \in {"unused", "done"}

\* _download_streams returned; _process_streams -> _concat_streams submits one
\* _concat_stream per selected stream of the manifest.
RunConcatStreams ==
    /\ rpc = "download"
    /\ download_streams_returns
    /\ rpc' = run_next(FALSE, "concat")
    /\ cpc' = [s \in StreamNames |-> IF Selected(s) THEN "start" ELSE "unused"]
    /\ UNCHANGED <<selVars, sceneVars, asmVars, legacy, joinVars, probes, reqVars, cfgVars, work_folder, muxVars, segment_range, disk, spc, sref, task, lock,
                   url_issued, faults, refreshes, ghostVars, assembled, stream_file, output>>

\* _concat_stream(stream) for stream = self.manifest.<s>_stream: reading
\* stream.path raises AttributeError on an object _set_stream_paths never saw.
ConcatStream(s) ==
    /\ rpc = "concat" /\ cpc[s] = "start"
    /\ LET stream == objs[ManifestStream(manifest, s)]
           files == concat_segments(stream.downloaded_segments)
       IN  IF stream.path = <<>> \/ \E k \in DOMAIN files : ~Exists(files[k])
             THEN /\ cpc' = [cpc EXCEPT ![s] = "error"]
                  /\ UNCHANGED <<assembled, stream_file>>
             ELSE /\ cpc' = [cpc EXCEPT ![s] = "done"]
                  /\ assembled' = [assembled EXCEPT
                                     ![s] = [k \in DOMAIN files |-> <<files[k], disk[files[k]]>>]]
                  /\ stream_file' = [stream_file EXCEPT ![s] = TRUE]
    /\ UNCHANGED <<selVars, sceneVars, asmVars, legacy, joinVars, probes, reqVars, rpc, cfgVars, work_folder, muxVars, segment_range, disk, spc, sref, task, lock,
                   url_issued, faults, refreshes, ghostVars, output>>

\* _concat_streams, lines 204-205, and _process_streams, lines 210-213: an
\* exception of a _concat_stream leaves run; else ffmpeg is next, or the rename
\* of the one target stream.
RunProcessStreams ==
    /\ rpc = "concat"
    /\ \A s \in StreamNames : cpc[s] \in {"unused", "done", "error"}
    /\ IF \E s \in StreamNames : cpc[s] = "error"
         THEN rpc' = "error" /\ UNCHANGED <<output, stream_file>>
         ELSE IF target_stream = "both"
                THEN rpc' = "mux" /\ UNCHANGED <<output, stream_file>>
                ELSE /\ rpc' = "cleanup"
                     /\ output' = "renamed"
                     /\ stream_file' = [stream_file EXCEPT ![target_stream] = FALSE]
    /\ UNCHANGED <<selVars, sceneVars, asmVars, legacy, joinVars, probes, reqVars, cfgVars, work_folder, muxVars, segment_range, disk, spc, sref, task, lock,
                   url_issued, faults, refreshes, ghostVars, cpc, assembled>>

\* What subprocess.run can return for the ffmpeg command: an exit status and
\* the text ffmpeg wrote to stderr.
FfmpegOutputs ==
    {[returncode |-> c, stderr |-> t] : c \in {0, 1}, t \in {<<>>, <<"m", "o", "o", "v">>}}

\* utils.ffmpeg_mux_streams with the exit status not looked at.
ffmpeg_mux_streams_unchecked(out) == NoError

\* utils.ffmpeg_mux_streams, lines 78-79: FFmpegError(out.stderr) is raised
\* unless the exit status is 0.
ffmpeg_mux_streams(out) ==
    IF ~(out.returncode = 0) THEN [type |-> "FFmpegError", args |-> <<out.stderr>>]
    ELSE NoError

\* _mux_streams -> utils.ffmpeg_mux_streams: a non-zero exit status raises FFmpegError.
RunMuxStreams(out) ==
    /\ rpc = "mux"
    /\ ffmpeg_out' = out
    /\ ffmpeg_error' = ffmpeg_mux_streams(out)
    /\ rpc' = run_next(ffmpeg_mux_streams(out) # NoError, "cleanup")
    /\ output' = IF out.returncode = 0 THEN "muxed" ELSE output
    /\ UNCHANGED <<selVars, sceneVars, asmVars, legacy, joinVars, probes, reqVars, cfgVars, work_folder, segment_range, disk, spc, sref, task, lock,
                   url_issued, faults, refreshes, ghostVars, cpc, assembled, stream_file>>

\* _work_folder_cleanup that removes the files whatever
\* keep_segments_after_download says.
cleanup_removes_files_always(keep) == TRUE

\* _work_folder_cleanup, line 293: if not self.keep_segments_after_download.
cleanup_removes_files(keep) == ~keep

\* _cleanup -> _work_folder_cleanup, lines 292-304: unless
\* keep_segments_after_download is set, the stream files other than the renamed
\* target and every recorded segment file of the manifest's streams are
\* removed; then the work directory is removed if os.listdir finds it empty.
RunCleanup ==
    /\ rpc = "cleanup"
    /\ LET recorded == Range(objs[manifest.audio_stream].downloaded_segments)
                           \cup Range(objs[manifest.video_stream].downloaded_segments)
       IN  IF cleanup_removes_files(keep_segments_after_download)
             THEN /\ disk' = [p \in DOMAIN disk \ recorded |-> disk[p]]
                  /\ stream_file' = [s \in StreamNames |->
                                        IF s # target_stream THEN FALSE ELSE stream_file[s]]
             ELSE UNCHANGED <<disk, stream_file>>
    /\ work_folder' = IF DOMAIN disk' = {} /\ \A s \in StreamNames : ~stream_file'[s]
                           THEN "removed" ELSE work_folder
    /\ rpc' = "done"
    /\ UNCHANGED <<selVars, sceneVars, asmVars, legacy, joinVars, probes, reqVars, cfgVars, muxVars, segment_range, spc, sref, task, lock, url_issued,
                   faults, refreshes, ghostVars, cpc, assembled, output>>

\* The segment numbers a range of RangeChoices can hold.
TaskIds == 0..2

Next ==
    \/ \E ok \in BOOLEAN : RunProcessManifest(ok)
    \/ RunSetStreamPaths
    \/ RunDownloadStreams
    \/ \E s \in StreamNames : StreamBegin(s)
    \/ \E s \in StreamNames, status \in Statuses : StreamInitResponse(s, status)
    \/ \E s \in StreamNames, i \in TaskIds : TaskStart(s, i)
    \/ \E s \in StreamNames, i \in TaskIds, status \in Statuses : TaskResponse(s, i, status)
    \/ \E s \in StreamNames, i \in TaskIds, ok \in BOOLEAN : TaskRefreshDeliver(s, i, ok)
    \/ \E s \in StreamNames, i \in TaskIds, ok \in BOOLEAN : TaskRefreshParse(s, i, ok)
    \/ \E s \in StreamNames, i \in TaskIds : TaskRetry(s, i)
    \/ \E s \in StreamNames, i \in TaskIds, status \in Statuses :
           TaskRetryResponse(s, i, status)
    \/ \E s \in StreamNames : StreamRaise(s)
    \/ \E s \in StreamNames : StreamJoin(s)
    \/ \E s \in StreamNames : StreamDone(s)
    \/ RunDownloadFailed
    \/ RunConcatStreams
    \/ \E s \in StreamNames : ConcatStream(s)
    \/ RunProcessStreams
    \/ \E out \in FfmpegOutputs : RunMuxStreams(out)
    \/ RunCleanup

Spec == Init /\ [][Next]_vars

\* --------------------------------------------------------------- SpecMovie
\* movie.py: one scene on the page; the SegmentTemplate attributes, the
\* duration of the movie, the scene and the padding vary.
MovieSpecInit ==
    /\ \E t \in 1..MaxTimescale, d \in 1..MaxDuration :
           doc = [DocOf(<<1>>) EXCEPT !.timescale = t, !.duration = d]
    /\ \E n \in {None, 1}, p \in {None} \cup (0..MaxPadding), secs \in 0..MaxSeconds :
           movie = MovieInit(n, p, secs)
    /\ \E start \in 0..MaxSceneStart, len \in 0..MaxSceneLen :
           scene_elems = <<SceneElem(start, len)>>
    /\ scenes = <<>>
    /\ audio_valid = {} /\ manifest = ManifestInit(None, FALSE, 0)
    /\ objs = <<>> /\ mpc = "new" /\ probes = <<>>
    /\ asm_files = <<>> /\ asm_out = <<>> /\ asm_pc = "start"
    /\ RunIdle
    /\ ReqIdle

\* Movie.download (movie.py) as far as the segment range: line 378
\* (_total_number_of_data_segments_calc, lines 399-409), line 175
\* (_calculate_scenes_boundaries when a scene is asked for) and
\* _download_segments, lines 427-434.
MovieSegmentRange ==
    /\ movie.total_number_of_data_segments = None
    /\ \E sd \in {segment_duration_calc(doc)} :
       \E total \in {Ceil(FloatDiv(FloatOf(movie.total_duration_seconds), sd))} :
       \E sb \in {IF Truthy(movie.scene_n)
                      THEN movie_calculate_scenes_boundaries(scene_elems, movie, sd)
                  ELSE <<>>} :
       \E range \in {IF Truthy(movie.scene_n) THEN sb[movie.scene_n]
                     ELSE <<movie.start_segment, movie.end_segment>>} :
           movie' = [movie EXCEPT !.segment_duration = sd,
                                  !.total_number_of_data_segments = total,
                                  !.scenes_boundaries = sb,
                                  !.start_segment = resolve_range(range[1], range[2], total)[1],
                                  !.end_segment = resolve_range(range[1], range[2], total)[2]]
    /\ UNCHANGED <<selVars, scene_elems, scenes, asmVars, legacy, joinVars, probes, reqVars, runVars>>

MovieNext == MovieSegmentRange

SpecMovie == MovieSpecInit /\ [][MovieNext]_vars

\* ----------------------------------------------------------------- SpecReq
\* Manifest._get_new_manifest_url on a session whose fields vary: the POST
\* to the delivery endpoint through CustomSession.custom_request.
ReqInit ==
    /\ \E m \in 0..MaxRetries, d \in 1..MaxDelay, f \in 1..MaxDelay :
           session = CustomSessionInit(m, d, f)
    /\ join_files = <<>> /\ join_src = <<>> /\ join = <<>> /\ legacy = <<>>
    /\ request = NoRequest
    /\ delivery = [pc |-> "new", url |-> None, error |-> "none"]
    /\ doc = DocOf(<<1>>) /\ audio_valid = {} /\ manifest = ManifestInit(None, FALSE, 0)
    /\ objs = <<>> /\ mpc = "new" /\ probes = <<>>
    /\ SceneIdle
    /\ asm_files = <<>> /\ asm_out = <<>> /\ asm_pc = "start"
    /\ RunIdle

\* What the delivery endpoint can answer: a status and a body that is a JSON
\* object with the url field, one without it, or not JSON.
Responses ==
    {[status_code |-> c, body |-> b] : c \in {200, 500}, b \in {"url", "no_url", "not_json"}}

\* custom_request, line 28, giving up one error later.
gives_up_late(attempt, max_retries) == attempt > max_retries

\* custom_request, line 28: if attempt >= self.max_retries.
gives_up(attempt, max_retries) == attempt >= max_retries

\* custom_request, line 31: the backoff delay, without the jitter of line 32.
backoff_delay(s, attempt) == s.initial_retry_delay * (s.backoff_factor ^ (attempt - 1))

\* _get_new_manifest_url, lines 85-91: self.session.post(url, ...) enters
\* custom_request("POST", ...) with attempt = 0.
DeliveryPost ==
    /\ delivery.pc = "new"
    /\ delivery' = [delivery EXCEPT !.pc = "posting"]
    /\ request' = [NoRequest EXCEPT !.pc = "try", !.method = "POST"]
    /\ UNCHANGED <<session, selVars, sceneVars, asmVars, legacy, joinVars, probes, runVars>>

\* custom_request, line 25: super().request returns a response.
RequestReturns(response) ==
    /\ request.pc = "try"
    /\ request' = [request EXCEPT !.pc = "returned", !.sent = @ + 1, !.response = response]
    /\ UNCHANGED <<session, delivery, selVars, sceneVars, asmVars, legacy, joinVars, probes, runVars>>

\* custom_request, lines 25-33: super().request raises RequestsError; the call
\* gives up with NetworkError or sleeps and goes round the loop.
RequestFails ==
    /\ request.pc = "try"
    /\ request' =
           IF gives_up(request.attempt + 1, session.max_retries)
               THEN [request EXCEPT !.pc = "raised", !.sent = @ + 1, !.errors = @ + 1,
                                    !.attempt = @ + 1]
           ELSE [request EXCEPT !.sent = @ + 1, !.errors = @ + 1, !.attempt = @ + 1,
                                !.slept = @ + backoff_delay(session, request.attempt + 1)]
    /\ UNCHANGED <<session, delivery, selVars, sceneVars, asmVars, legacy, joinVars, probes, runVars>>

\* _get_new_manifest_url, lines 91-92: NetworkError passes through; .json()
\* raises on a body that is not JSON; content["url"] raises KeyError on a
\* body without the field.
DeliveryReturn ==
    /\ delivery.pc = "posting"
    /\ request.pc \in {"returned", "raised"}
    /\ delivery' =
           IF request.pc = "raised"
               THEN [delivery EXCEPT !.pc = "error", !.error = "NetworkError"]
           ELSE IF request.response.body = "not_json"
               THEN [delivery EXCEPT !.pc = "error", !.error = "JSONDecodeError"]
           ELSE IF request.response.body = "no_url"
               THEN [delivery EXCEPT !.pc = "error", !.error = "KeyError"]
           ELSE [delivery EXCEPT !.pc = "ok", !.url = 1]
    /\ UNCHANGED <<session, request, selVars, sceneVars, asmVars, legacy, joinVars, probes, runVars>>

ReqNext ==
    \/ DeliveryPost
    \/ \E response \in Responses : RequestReturns(response)
    \/ RequestFails
    \/ DeliveryReturn

SpecReq == ReqInit /\ [][ReqNext]_vars

\* Every call of the underlying request returns or raises, and the sleep ends.
SpecReqLive == SpecReq /\ WF_vars(ReqNext)

\* ---------------------------------------------------------------- SpecJoin
\* Movie._join_files (movie.py) on one list of files, once with
\* aggressive_segment_cleaning and once without, each call on its own copy of
\* the work directory. downloaded_segments holds every path once.
JoinPaths == {SegmentPath("v", 1, n) : n \in {None} \cup (1..(MaxJoinLen - 1))}

\* A call that has not begun: k is the position in files, held the bytes read
\* and not yet written, out the bytes of the output file (None: no file).
JoinStart(src) == [pc |-> "start", k |-> 1, held |-> None, disk |-> src, out |-> None]

JoinInit ==
    /\ join_files \in DistinctSeqs(JoinPaths, MaxJoinLen)
    /\ join_src \in [JoinPaths -> 1..MaxBytes]
    /\ join = [aggressive \in BOOLEAN |-> JoinStart(join_src)]
    /\ legacy = <<>>
    /\ session = CustomSessionInit(3, 1, 2)
    /\ request = NoRequest
    /\ delivery = [pc |-> "new", url |-> None, error |-> "none"]
    /\ doc = DocOf(<<1>>) /\ audio_valid = {} /\ manifest = ManifestInit(None, FALSE, 0)
    /\ objs = <<>> /\ mpc = "new" /\ probes = <<>>
    /\ SceneIdle
    /\ asm_files = <<>> /\ asm_out = <<>> /\ asm_pc = "start"
    /\ RunIdle

\* The loop body with the file removed before its bytes are written.
join_body_remove_early(aggressive) ==
    IF aggressive THEN <<"read", "remove", "write">> ELSE <<"read", "write">>

\* _join_files, lines 538-544: the statements of one pass of the loop.
join_body(aggressive) ==
    IF aggressive THEN <<"read", "write", "remove">> ELSE <<"read", "write">>

\* The call goes on to statement n of the loop body, or to the next file.
JoinGoto(j, aggressive, n) ==
    IF n <= Len(join_body(aggressive))
        THEN [j EXCEPT !.pc = join_body(aggressive)[n]]
    ELSE [j EXCEPT !.pc = join_body(aggressive)[1], !.k = @ + 1]

\* The position of the statement the call is at.
JoinAt(aggressive) ==
    CHOOSE n \in DOMAIN join_body(aggressive) :
        join_body(aggressive)[n] = join[aggressive].pc

\* _join_files, line 536: open(output_path, 'wb') creates the empty output.
JoinOpen(aggressive) ==
    /\ join[aggressive].pc = "start"
    /\ join' = [join EXCEPT ![aggressive] = JoinGoto([@ EXCEPT !.out = <<>>], aggressive, 1)]
    /\ UNCHANGED <<join_files, join_src, selVars, probes, sceneVars, asmVars, legacy, reqVars, runVars>>

\* _join_files, lines 538-540: the segment file is opened and read; open raises
\* when the file is not there.
JoinRead(aggressive) ==
    /\ join[aggressive].pc = "read" /\ join[aggressive].k <= Len(join_files)
    /\ LET p == join_files[join[aggressive].k]
       IN  join' = [join EXCEPT ![aggressive] =
                       IF p \in DOMAIN @.disk
                           THEN JoinGoto([@ EXCEPT !.held = join[aggressive].disk[p]], aggressive,
                                         JoinAt(aggressive) + 1)
                       ELSE [@ EXCEPT !.pc = "error"]]
    /\ UNCHANGED <<join_files, join_src, selVars, probes, sceneVars, asmVars, legacy, reqVars, runVars>>

\* _join_files, line 541: f.write(content).
JoinWrite(aggressive) ==
    /\ join[aggressive].pc = "write"
    /\ join' = [join EXCEPT ![aggressive] =
                   JoinGoto([@ EXCEPT !.out = Append(@, join[aggressive].held)], aggressive,
                            JoinAt(aggressive) + 1)]
    /\ UNCHANGED <<join_files, join_src, selVars, probes, sceneVars, asmVars, legacy, reqVars, runVars>>

\* _join_files, lines 543-544: os.remove(segment_file_path).
JoinRemove(aggressive) ==
    /\ join[aggressive].pc = "remove"
    /\ LET p == join_files[join[aggressive].k]
       IN  join' = [join EXCEPT ![aggressive] =
                       JoinGoto([@ EXCEPT !.disk = [q \in DOMAIN @ \ {p} |-> @[q]]],
                                aggressive, JoinAt(aggressive) + 1)]
    /\ UNCHANGED <<join_files, join_src, selVars, probes, sceneVars, asmVars, legacy, reqVars, runVars>>

\* _join_files, line 545: the loop has ended and the output is closed.
JoinClose(aggressive) ==
    /\ join[aggressive].pc = "read" /\ join[aggressive].k > Len(join_files)
    /\ join' = [join EXCEPT ![aggressive].pc = "done"]
    /\ UNCHANGED <<join_files, join_src, selVars, probes, sceneVars, asmVars, legacy, reqVars, runVars>>

JoinNext ==
    \E aggressive \in BOOLEAN :
        \/ JoinOpen(aggressive)
        \/ JoinRead(aggressive)
        \/ JoinWrite(aggressive)
        \/ JoinRemove(aggressive)
        \/ JoinClose(aggressive)

SpecJoin == JoinInit /\ [][JoinNext]_vars

\* -------------------------------------------------------------- SpecLegacy
\* Movie._download_segments, _download_segment and _join_stream_segmetns
\* (movie.py). Segment bytes are "good" or "bad" as _is_valid_media finds them
\* behind the init segment; "none" is Python's None.
LegacyTypes == {"a", "v"}

\* [self.audio_stream, self.video_stream] without the None entries
LegacyStreamLists == {<<"a", "v">>, <<"a">>, <<"v">>}

\* start_segment and end_segment as given to Movie(...)
LegacyRanges == {<<None, None>>, <<1, None>>, <<None, 1>>, <<None, MaxLegacyTotal + 1>>}

\* Segments whose files an earlier run may have left in work_folder.
LegacyOldSegments == {<<"a", None>>, <<"a", 1>>, <<"v", MaxLegacyTotal>>}

\* Whether the server holds segment segment_number of a stream whose last data
\* segment is last_segment: the init segment and the indices up to last_segment.
LegacyServed(segment_number, last_segment) ==
    segment_number = None \/ segment_number <= last_segment

\* What the server answers to a request for a segment: the segment, with bytes
\* ffmpeg accepts or not, when it holds it and 404 when it does not, or 500.
LegacyResponses(segment_number, last_segment) ==
    {[ok |-> FALSE, status_code |-> 500, content |-> "none"]}
        \cup IF LegacyServed(segment_number, last_segment)
                 THEN {[ok |-> TRUE, status_code |-> 200, content |-> c] : c \in {"good", "bad"}}
             ELSE {[ok |-> FALSE, status_code |-> 404, content |-> "none"]}

\* The Movie object when _download_segments is called. calls, probed, fetched,
\* decrements, end_before and missing_at record the run for the properties:
\* the overwrite arguments of the _download_segment calls and the probe
\* results for the data segment last fetched (fetched: stream position and
\* index), the number of end_segment decrements, end_segment after line 434,
\* and the stream position at which a 404 was tolerated. last_segment is the
\* index of the last data segment the server holds of each stream.
LegacyMovie(total, start, end, check, overwrite, streams, files, last_segment) ==
    [pc |-> "new", total_number_of_data_segments |-> total, last_segment |-> last_segment,
     start_segment |-> start, end_segment |-> end,
     segment_validity_check |-> check, overwrite_existing_files |-> overwrite,
     streams |-> streams, si |-> 1, segments_to_download |-> <<0, None>>,
     current_segment_number |-> 0, data_segment_bytes |-> "none",
     downloaded_segments |-> [t \in LegacyTypes |-> <<>>], files |-> files,
     joined |-> [t \in LegacyTypes |-> <<>>], error |-> "none",
     calls |-> <<>>, probed |-> <<>>, fetched |-> <<0, None>>,
     decrements |-> 0, end_before |-> None, missing_at |-> 0]

LegacyInit ==
    /\ \E total \in 1..MaxLegacyTotal, range \in LegacyRanges, check \in BOOLEAN,
          overwrite \in BOOLEAN, streams \in LegacyStreamLists,
          last_segment \in [LegacyTypes -> {0, MaxLegacyTotal - 1, MaxLegacyTotal + 1}] :
           \E old \in SUBSET {s \in LegacyOldSegments : LegacyServed(s[2], last_segment[s[1]])} :
               legacy = LegacyMovie(total, range[1], range[2], check, overwrite, streams,
                                    {SegmentPath(s[1], 1, s[2]) : s \in old}, last_segment)
    /\ join_files = <<>> /\ join_src = <<>> /\ join = <<>>
    /\ session = CustomSessionInit(3, 1, 2)
    /\ request = NoRequest
    /\ delivery = [pc |-> "new", url |-> None, error |-> "none"]
    /\ doc = DocOf(<<1>>) /\ audio_valid = {} /\ manifest = ManifestInit(None, FALSE, 0)
    /\ objs = <<>> /\ mpc = "new" /\ probes = <<>>
    /\ SceneIdle
    /\ asm_files = <<>> /\ asm_out = <<>> /\ asm_pc = "start"
    /\ RunIdle

\* _download_segment, max_tries=2
legacy_max_tries == 2

\* A 404 is let pass at every index.
tolerated_404_any_index(status_code, segment_number, total) == status_code = 404

\* _download_segment, line 510
tolerated_404(status_code, segment_number, total) ==
    status_code = 404 /\ segment_number = total

\* _download_segment: file_bytes is what the file holds if it is there, tries
\* the number of requests that raised, response the answer if one came.
\* media_stream says whether the stream object was passed.
movie_download_segment(m, stream_type, segment_number, overwrite, media_stream, file_bytes, tries, response) ==
    LET segment_path == SegmentPath(stream_type, 1, segment_number)
        appended == IF media_stream
                        THEN [m EXCEPT !.downloaded_segments[stream_type] = Append(@, segment_path)]
                    ELSE m
    IN  IF segment_path \in m.files /\ ~overwrite
            THEN [m |-> appended, ret |-> file_bytes, raised |-> "none"]
        ELSE IF tries >= legacy_max_tries
            THEN [m |-> m, ret |-> "none", raised |-> "Failed to get a response"]
        ELSE IF response.ok
            THEN [m |-> [appended EXCEPT !.files = @ \cup {segment_path}],
                  ret |-> response.content, raised |-> "none"]
        ELSE IF tolerated_404(response.status_code, segment_number,
                              m.total_number_of_data_segments)
            THEN [m |-> [m EXCEPT !.end_segment = @ - 1, !.decrements = @ + 1,
                                  !.missing_at = m.si],
                  ret |-> "none", raised |-> "none"]
        ELSE [m |-> m, ret |-> "none", raised |-> "Download error"]

\* The exception leaves _download_segments and Movie.download.
LegacyRaise(m, error) == [m EXCEPT !.pc = "error", !.error = error]

\* The loop of line 453 goes on to the next index.
LegacyNextSegment(m) ==
    [m EXCEPT !.pc = "data", !.current_segment_number = @ + 1]

\* _download_segments, lines 433-434
LegacyStart ==
    /\ legacy.pc = "new"
    /\ \E start \in {IF Truthy(legacy.start_segment) THEN legacy.start_segment ELSE 0},
          end \in {IF Truthy(legacy.end_segment) THEN legacy.end_segment
                   ELSE legacy.total_number_of_data_segments} :
           legacy' = [legacy EXCEPT !.pc = "stream", !.start_segment = start,
                            !.end_segment = end, !.end_before = end]
    /\ UNCHANGED <<selVars, probes, sceneVars, asmVars, joinVars, reqVars, runVars>>

\* _download_segments, lines 438-450: the init segment of the next stream and
\* the range of its data segments.
LegacyStreamInit ==
    /\ legacy.pc = "stream" /\ legacy.si <= Len(legacy.streams)
    /\ \E file_bytes \in {"good", "bad"}, tries \in 0..legacy_max_tries,
          response \in LegacyResponses(None, legacy.last_segment[legacy.streams[legacy.si]]) :
           \E r \in {movie_download_segment(legacy, legacy.streams[legacy.si], None,
                                             legacy.overwrite_existing_files, TRUE,
                                             file_bytes, tries, response)} :
               legacy' = IF r.raised # "none" THEN LegacyRaise(r.m, r.raised)
                     ELSE [r.m EXCEPT !.pc = "data",
                               !.segments_to_download = <<r.m.start_segment, r.m.end_segment>>,
                               !.current_segment_number = r.m.start_segment]
    /\ UNCHANGED <<selVars, probes, sceneVars, asmVars, joinVars, reqVars, runVars>>

\* _download_segments, lines 453-459: one data segment.
LegacyDataSegment ==
    /\ legacy.pc = "data" /\ legacy.current_segment_number <= legacy.segments_to_download[2]
    /\ \E file_bytes \in {"good", "bad"}, tries \in 0..legacy_max_tries,
          response \in LegacyResponses(legacy.current_segment_number,
                                       legacy.last_segment[legacy.streams[legacy.si]]) :
           \E r \in {movie_download_segment(legacy, legacy.streams[legacy.si], legacy.current_segment_number,
                                             legacy.overwrite_existing_files, TRUE,
                                             file_bytes, tries, response)} :
           \E m \in {[r.m EXCEPT !.calls = <<legacy.overwrite_existing_files>>, !.probed = <<>>,
                                  !.fetched = <<legacy.si, legacy.current_segment_number>>,
                                  !.data_segment_bytes = r.ret]} :
               legacy' = IF r.raised # "none" THEN LegacyRaise(m, r.raised)
                     ELSE IF m.segment_validity_check /\ r.ret # "none"
                         THEN [m EXCEPT !.pc = "probe"]
                     ELSE LegacyNextSegment(m)
    /\ UNCHANGED <<selVars, probes, sceneVars, asmVars, joinVars, reqVars, runVars>>

\* The segment is fetched again whatever the probe found.
needs_redownload_always(valid) == TRUE

\* _download_segments, line 461
needs_redownload(valid) == ~valid

\* _download_segments, line 461: _is_valid_media on the init and data bytes.
LegacyProbe ==
    /\ legacy.pc = "probe"
    /\ \E valid \in {legacy.data_segment_bytes = "good"} :
       \E m \in {[legacy EXCEPT !.probed = Append(@, valid)]} :
           legacy' = IF needs_redownload(valid) THEN [m EXCEPT !.pc = "redownload"]
                 ELSE LegacyNextSegment(m)
    /\ UNCHANGED <<selVars, probes, sceneVars, asmVars, joinVars, reqVars, runVars>>

\* _download_segments, lines 463-465: the segment is fetched again with
\* overwrite=True and without the stream object; bytes + None raises TypeError.
LegacyRedownload ==
    /\ legacy.pc = "redownload"
    /\ \E file_bytes \in {"good", "bad"}, tries \in 0..legacy_max_tries,
          response \in LegacyResponses(legacy.current_segment_number,
                                       legacy.last_segment[legacy.streams[legacy.si]]) :
           \E r \in {movie_download_segment(legacy, legacy.streams[legacy.si], legacy.current_segment_number,
                                             TRUE, FALSE, file_bytes, tries, response)} :
           \E m \in {[r.m EXCEPT !.calls = Append(@, TRUE), !.data_segment_bytes = r.ret]} :
               legacy' = IF r.raised # "none" THEN LegacyRaise(m, r.raised)
                     ELSE IF r.ret = "none" THEN LegacyRaise(m, "TypeError")
                     ELSE [m EXCEPT !.pc = "probe2"]
    /\ UNCHANGED <<selVars, probes, sceneVars, asmVars, joinVars, reqVars, runVars>>

\* _download_segments, lines 466-467
LegacySecondProbe ==
    /\ legacy.pc = "probe2"
    /\ \E valid \in {legacy.data_segment_bytes = "good"} :
       \E m \in {[legacy EXCEPT !.probed = Append(@, valid)]} :
           legacy' = IF valid THEN LegacyNextSegment(m)
                 ELSE LegacyRaise(m, "Segment not valid!")
    /\ UNCHANGED <<selVars, probes, sceneVars, asmVars, joinVars, reqVars, runVars>>

\* _download_segments, line 453: the range is exhausted, on to the next stream.
LegacyStreamDone ==
    /\ legacy.pc = "data" /\ legacy.current_segment_number > legacy.segments_to_download[2]
    /\ legacy' = [legacy EXCEPT !.pc = "stream", !.si = @ + 1]
    /\ UNCHANGED <<selVars, probes, sceneVars, asmVars, joinVars, reqVars, runVars>>

\* _join_stream_segmetns: every stream is joined from its downloaded_segments.
LegacyJoin ==
    /\ legacy.pc = "stream" /\ legacy.si > Len(legacy.streams)
    /\ legacy' = [legacy EXCEPT !.pc = "done",
                        !.joined = [t \in LegacyTypes |->
                                       IF t \in Range(legacy.streams)
                                           THEN legacy.downloaded_segments[t] ELSE <<>>]]
    /\ UNCHANGED <<selVars, probes, sceneVars, asmVars, joinVars, reqVars, runVars>>

LegacyNext ==
    \/ LegacyStart
    \/ LegacyStreamInit
    \/ LegacyDataSegment
    \/ LegacyProbe
    \/ LegacyRedownload
    \/ LegacySecondProbe
    \/ LegacyStreamDone
    \/ LegacyJoin

SpecLegacy == LegacyInit /\ [][LegacyNext]_vars

\* ---------------------------------------------------------- SpecLegacyCall
\* One Movie._download_segment call (movie.py) for a segment that is not on
\* disk, statement by statement through the loop of lines 490-498. A signed
\* base URL is the number of the delivery answer it came from; segment_url is
\* the base URL it was built from together with the segment name. attempts
\* records, for every _send_request call, the base of the URL requested, the
\* base_stream_url of the object and the session at that time; steps records
\* the statements of the except block in the order they ran.
LegacyCall(max_tries, stream_type, segment_number) ==
    [pc |-> "new", max_tries |-> max_tries, stream_type |-> stream_type,
     segment_number |-> segment_number, base_stream_url |-> 1, issued |-> 1, session |-> 1,
     segment_url |-> [base |-> None, name |-> <<>>], response |-> None, tries |-> 0,
     error |-> "none", attempts |-> <<>>, steps |-> <<>>]

LegacyCallInit ==
    /\ \E max_tries \in 0..MaxTries, stream_type \in LegacyTypes,
          segment_number \in {None} \cup (0..MaxLegacyTotal) :
           legacy = LegacyCall(max_tries, stream_type, segment_number)
    /\ join_files = <<>> /\ join_src = <<>> /\ join = <<>>
    /\ session = CustomSessionInit(3, 1, 2)
    /\ request = NoRequest
    /\ delivery = [pc |-> "new", url |-> None, error |-> "none"]
    /\ doc = DocOf(<<1>>) /\ audio_valid = {} /\ manifest = ManifestInit(None, FALSE, 0)
    /\ objs = <<>> /\ mpc = "new" /\ probes = <<>>
    /\ SceneIdle
    /\ asm_files = <<>> /\ asm_out = <<>> /\ asm_pc = "start"
    /\ RunIdle

\* _download_segment, lines 473-489: segment_url is built, once, from
\* self.base_stream_url; response = None, tries = 0.
LegacyCallBegin ==
    /\ legacy.pc = "new"
    /\ legacy' = [legacy EXCEPT
                     !.pc = "loop",
                     !.segment_url = [base |-> legacy.base_stream_url,
                                      name |-> SegmentName(legacy.stream_type, 1,
                                                           legacy.segment_number)],
                     !.response = None, !.tries = 0]
    /\ UNCHANGED <<selVars, probes, sceneVars, asmVars, joinVars, reqVars, runVars>>

\* The loop of line 490 goes on.
legacy_loop_continues(m) == m.response = None /\ m.tries < m.max_tries

\* _download_segment, lines 491-493: self._send_request('get', segment_url)
\* returns a response or raises after its own retries.
LegacyCallSend(status) ==
    /\ legacy.pc = "loop" /\ legacy_loop_continues(legacy)
    /\ legacy' = [legacy EXCEPT
                     !.attempts = Append(@, [url |-> legacy.segment_url.base,
                                             base_stream_url |-> legacy.base_stream_url,
                                             session |-> legacy.session]),
                     !.steps = <<>>,
                     !.response = status,
                     !.pc = IF status = None THEN "except" ELSE "loop"]
    /\ UNCHANGED <<selVars, probes, sceneVars, asmVars, joinVars, reqVars, runVars>>

\* _download_segment, line 495: self._create_new_session(...)
LegacyCallNewSession ==
    /\ legacy.pc = "except"
    /\ legacy' = [legacy EXCEPT !.session = @ + 1, !.steps = Append(@, "session"),
                                !.pc = "refresh_url"]
    /\ UNCHANGED <<selVars, probes, sceneVars, asmVars, joinVars, reqVars, runVars>>

\* _download_segment, line 496: self._get_new_manifest_url() sets manifest_url
\* and base_stream_url, or raises out of the call.
LegacyCallRefreshUrl(ok) ==
    /\ legacy.pc = "refresh_url"
    /\ legacy' = IF ok
                    THEN [legacy EXCEPT !.base_stream_url = legacy.issued + 1,
                                        !.issued = @ + 1, !.steps = Append(@, "url"),
                                        !.pc = "refresh_content"]
                  ELSE [legacy EXCEPT !.pc = "raised", !.error = "_get_new_manifest_url"]
    /\ UNCHANGED <<selVars, probes, sceneVars, asmVars, joinVars, reqVars, runVars>>

\* _download_segment, lines 497-498: self._get_manifest_content(); tries += 1
LegacyCallRefreshContent(ok) ==
    /\ legacy.pc = "refresh_content"
    /\ legacy' = IF ok
                    THEN [legacy EXCEPT !.tries = @ + 1, !.steps = Append(@, "content"),
                                        !.pc = "loop"]
                  ELSE [legacy EXCEPT !.pc = "raised", !.error = "_get_manifest_content"]
    /\ UNCHANGED <<selVars, probes, sceneVars, asmVars, joinVars, reqVars, runVars>>

\* _download_segment, lines 500-519: the loop has ended, with a response or
\* without one.
LegacyCallEnd ==
    /\ legacy.pc = "loop" /\ ~legacy_loop_continues(legacy)
    /\ legacy' = IF legacy.response = None
                    THEN [legacy EXCEPT !.pc = "raised", !.error = "Failed to get a response"]
                  ELSE IF legacy.response = 200 \/ legacy.response = 404
                    THEN [legacy EXCEPT !.pc = "returned"]
                  ELSE [legacy EXCEPT !.pc = "raised", !.error = "Download error"]
    /\ UNCHANGED <<selVars, probes, sceneVars, asmVars, joinVars, reqVars, runVars>>

LegacyCallNext ==
    \/ LegacyCallBegin
    \/ \E status \in {None, 200, 404, 500} : LegacyCallSend(status)
    \/ LegacyCallNewSession
    \/ \E ok \in BOOLEAN : LegacyCallRefreshUrl(ok)
    \/ \E ok \in BOOLEAN : LegacyCallRefreshContent(ok)
    \/ LegacyCallEnd

SpecLegacyCall == LegacyCallInit /\ [][LegacyCallNext]_vars

\* ------------------------------------------------------------------ claims
TaskDone(s) == \A i \in DOMAIN task[s] : task[s][i].pc = "done"

StreamEnded(s) == spc[s] \in {"done", "error"}

\* C1: when two or more tasks of one stream fetch are answered 403 on their
\* first request before any refresh has begun, process_manifest is executed
\* exactly once for them.
C1_BurstRefreshedOnce ==
    \A s \in StreamNames :
        (StreamEnded(s) /\ Cardinality(burst[s]) >= 2)
            => Cardinality({i \in burst[s] : task[s][i].refresh # "no"}) = 1

\* The paths one expects assembly to read for stream s: one per segment number
\* served or found on disk.
ServedPaths(s) == {SegPath(s, n) : n \in served[s]}

\* C2: once the fetch of a stream has succeeded and its assembly begins, the
\* list _concat_stream reads holds exactly one initialization-segment path and
\* exactly one path per served index of the range, and nothing else.
C2_AssemblyReadsServedPaths ==
    \A s \in StreamNames :
        (rpc = "concat" /\ cpc[s] # "unused") =>
            LET files == objs[ManifestStream(manifest, s)].downloaded_segments
            IN  /\ Len(files) = Cardinality(served[s])
                /\ Range(files) = ServedPaths(s)
                /\ None \in served[s]
                /\ served[s] \ {None} \subseteq segment_range[1]..segment_range[2]

\* The same when no refresh happened during the run.
C2_WithoutRefresh == refreshes = 0 => C2_AssemblyReadsServedPaths

\* C3: a refresh (a change of the manifest while the streams are fetched)
\* leaves the chosen stream objects, their stream_id, path and
\* downloaded_segments, segment_duration and the available heights unchanged.
C3_RefreshKeepsStreams ==
    [][(rpc = "download" /\ manifest' # manifest) =>
          /\ manifest'.audio_stream = manifest.audio_stream
          /\ manifest'.video_stream = manifest.video_stream
          /\ manifest'.segment_duration = manifest.segment_duration
          /\ manifest'.avaliable_resulutions = manifest.avaliable_resulutions
          /\ \A s \in StreamNames :
                LET old == objs[ManifestStream(manifest, s)]
                    new == objs'[ManifestStream(manifest', s)]
                IN  /\ new.stream_id = old.stream_id
                    /\ new.path = old.path
                    /\ new.downloaded_segments = old.downloaded_segments]_vars

C5_Only404OfLastIndexTolerated ==
    \A s \in StreamNames :
        /\ init_answer[s] = 404 => (spc[s] = "error" /\ task[s] = <<>>)
        /\ \A i \in DOMAIN task[s] :
              LET t == task[s][i]
                  last == IF t.a2 # None THEN t.a2 ELSE t.a1
              IN  last = 404 =>
                      IF i = manifest.total_number_of_data_segments
                        THEN /\ t.pc = "done"
                             /\ SegPath(s, i) \notin Range(StreamOf(s).downloaded_segments)
                             /\ (Exists(SegPath(s, i)) => disk[SegPath(s, i)] = "old")
                             /\ i \notin served[s]
                        ELSE t.pc = "failed"

C5_Witness ==
    \E s1 \in StreamNames, s2 \in StreamNames :
        /\ segment_range = <<1, 2>>
        /\ StreamEnded(s1) /\ StreamEnded(s2)
        /\ DOMAIN task[s1] = {1, 2} /\ DOMAIN task[s2] = {1, 2}
        /\ task[s1][1].a1 = 404 /\ task[s1][1].pc = "done"
        /\ task[s2][2].a1 = 404 /\ task[s2][2].pc = "failed"

\* The data-segment number a path of the work directory names: the digits
\* between the last "_" and the extension.
RECURSIVE LastUnderscore(_, _)
LastUnderscore(p, k) == IF k = 0 \/ p[k] = "_" THEN k ELSE LastUnderscore(p, k - 1)

SegmentNumberOf(p) == IntOf(SubSeq(p, LastUnderscore(p, Len(p)) + 1, Len(p) - Len(Ext)))

\* C6: whatever the order of the recorded paths, assembly copies the
\* initialization segment first and then the data segments in strictly ascending
\* numeric index.
C6_AssemblyOrder ==
    asm_pc = "done" =>
        /\ Len(asm_out) = Len(asm_files)
        /\ Range(asm_out) = Range(asm_files)
        /\ IsInitPath(asm_out[1])
        /\ \A k \in 2..Len(asm_out) : ~IsInitPath(asm_out[k])
        /\ \A k \in 2..(Len(asm_out) - 1) :
              SegmentNumberOf(asm_out[k]) < SegmentNumberOf(asm_out[k + 1])

C6_Witness ==
    /\ asm_pc = "done"
    /\ asm_files = <<SegmentPath("a", 1, 2), SegmentPath("a", 1, 10), SegmentPath("a", 1, None),
                     SegmentPath("a", 1, 1)>>
    /\ asm_out = <<SegmentPath("a", 1, None), SegmentPath("a", 1, 1), SegmentPath("a", 1, 2),
                   SegmentPath("a", 1, 10)>>

\* The segment numbers of a stream fetch: the initialization segment and the range.
Wanted == {None} \cup (segment_range[1]..segment_range[2])

\* Every wanted segment file of stream s is a file a previous run left, and
\* overwrite is not requested.
AllOnDisk(s) ==
    /\ ~overwrite_existing_files
    /\ \A n \in Wanted : Exists(SegPath(s, n)) /\ disk[SegPath(s, n)] = "old"

\* The order of assembly of the wanted segments.
RECURSIVE Ascending(_, _)
Ascending(a, b) == IF a > b THEN <<>> ELSE <<a>> \o Ascending(a + 1, b)

\* C7: with the initialization segment and every segment of the range on disk
\* and no overwrite, the fetch makes no segment request, records exactly the
\* paths of the files, and assembly outputs the files' bytes in order.
C7_RefetchIsIdempotent ==
    \A s \in StreamNames :
        (spc[s] \notin {"unused", "start"} /\ AllOnDisk(s)) =>
            /\ requests[s] = 0
            /\ spc[s] \in {"pool", "done"}
            /\ spc[s] = "done" =>
                  /\ Range(StreamOf(s).downloaded_segments) = {SegPath(s, n) : n \in Wanted}
                  /\ Len(StreamOf(s).downloaded_segments) = Cardinality(Wanted)
            /\ cpc[s] = "done" =>
                  assembled[s] =
                      [k \in 1..Cardinality(Wanted) |->
                          <<SegPath(s, (<<None>> \o Ascending(segment_range[1],
                                                              segment_range[2]))[k]), "old">>]

C7_Witness ==
    /\ rpc = "mux"
    /\ segment_range = <<0, 1>>
    /\ \A s \in StreamNames : AllOnDisk(s) /\ cpc[s] = "done" /\ Len(assembled[s]) = 3

\* Some segment task, or the initialization segment, of a stream ended in an error.
HardError(s) ==
    \/ spc[s] = "error"
    \/ \E i \in DOMAIN task[s] : task[s][i].pc = "failed"

\* C8: ffmpeg is invoked only after both streams were fetched and assembled
\* without error; after a hard error of any segment task it is never invoked and
\* there is no output file.
C8_MuxOnlyAfterBothComplete ==
    /\ (rpc = "mux" \/ output = "muxed") =>
          \A s \in StreamNames : spc[s] = "done" /\ TaskDone(s) /\ cpc[s] = "done"
    /\ (\E s \in StreamNames : HardError(s)) =>
          (output = "none" /\ rpc \in {"download", "error"})

C8_Witness ==
    /\ output = "muxed"
    /\ \A s \in StreamNames : spc[s] = "done" /\ cpc[s] = "done" /\ requests[s] = 3

\* C9: after the error of a segment task has been raised in _download_stream, no
\* request is started for that stream any more.
C9_NoRequestAfterError == \A s \in StreamNames : ~late[s]

\* The height ladder H of the manifest document.
Ladder == {doc.video[k].height : k \in DOMAIN doc.video}

\* The representations whose audio probe is valid, and whether there is one
\* (parse_content reaches the video selection only then).
ValidCandidates ==
    {k \in DOMAIN doc.video :
        <<doc.video[k].id, manifest.total_number_of_data_segments \div 2>> \in audio_valid}

AudioFound == ValidCandidates # {}

SelectedHeight == objs[manifest.video_stream].height

\* C10: for a target height h > 0 that is the height of a representation,
\* parse_content selects the representation of height h, forced or not.
C10_ExactHeightSelected ==
    (/\ mpc # "new" /\ manifest.target_height > 0 /\ AudioFound
     /\ \E k \in DOMAIN doc.video : doc.video[k].height = manifest.target_height)
        => /\ mpc = "ok"
           /\ objs[manifest.video_stream].height = manifest.target_height
           /\ \A k \in DOMAIN doc.video :
                  doc.video[k].height = manifest.target_height
                      => objs[manifest.video_stream].stream_id = doc.video[k].id

C10_Witness ==
    /\ mpc = "ok" /\ manifest.force_resolution
    /\ Len(doc.video) = 3 /\ manifest.target_height = 2
    /\ objs[manifest.video_stream].height = 2

\* C11: without force_resolution and for a target height h > 0 that is no
\* height of the ladder, parse_content selects the greatest height of the
\* ladder that is <= h, and raises when the ladder has no height <= h.
C11_NearestLowerSelected ==
    (/\ mpc # "new" /\ manifest.target_height > 0 /\ ~manifest.force_resolution
     /\ manifest.target_height \notin Ladder /\ AudioFound)
        => IF \E h \in Ladder : h <= manifest.target_height
             THEN /\ mpc = "ok"
                  /\ SelectedHeight \in Ladder
                  /\ SelectedHeight <= manifest.target_height
                  /\ \A h \in Ladder : h <= manifest.target_height => h <= SelectedHeight
             ELSE mpc = "error" /\ manifest.video_stream = None

C11_Witness ==
    /\ mpc = "ok" /\ ~manifest.force_resolution
    /\ manifest.target_height = 2 /\ Ladder = {1, 3}
    /\ SelectedHeight = 1

\* C12: with force_resolution and a target height h > 0 that is no height of
\* the ladder, parse_content raises and selects no video stream, whatever
\* lower heights the ladder has.
C12_ForcedAbsentHeightFails ==
    (/\ mpc # "new" /\ manifest.force_resolution
     /\ manifest.target_height > 0 /\ manifest.target_height \notin Ladder)
        => mpc = "error" /\ manifest.video_stream = None

C12_Witness ==
    /\ mpc = "error" /\ manifest.force_resolution /\ AudioFound
    /\ manifest.target_height = 3 /\ Ladder = {1, 2}
    /\ manifest.audio_stream # None /\ manifest.video_stream = None

\* C13: on a non-empty ladder target_height 0 selects the minimum height and
\* target_height None the maximum, in every document order, forced or not.
C13_LowestAndHighest ==
    (mpc # "new" /\ Ladder # {} /\ AudioFound /\ manifest.target_height \in {0, None})
        => /\ mpc = "ok"
           /\ SelectedHeight \in Ladder
           /\ manifest.target_height = 0 => \A h \in Ladder : SelectedHeight <= h
           /\ manifest.target_height = None => \A h \in Ladder : h <= SelectedHeight

C13_Witness ==
    /\ mpc = "ok" /\ manifest.force_resolution /\ manifest.target_height = 0
    /\ Heights(doc.video) = <<3, 1, 2>>
    /\ SelectedHeight = 1

\* C14: _find_best_good_audio_stream returns the id of the valid candidate of
\* the greatest video height, the probe being data segment floor(total / 2);
\* it raises if and only if no candidate's probe is valid.
C14_BestValidAudio ==
    mpc # "new"
        => /\ manifest.audio_stream = None <=> ValidCandidates = {}
           /\ manifest.audio_stream # None =>
                  \E k \in ValidCandidates :
                      /\ objs[manifest.audio_stream].stream_id = doc.video[k].id
                      /\ \A j \in ValidCandidates :
                             doc.video[j].height <= doc.video[k].height

C14_Witness ==
    /\ mpc # "new" /\ Heights(doc.video) = <<2, 3, 1>>
    /\ ValidCandidates = {1, 3}
    /\ <<2, 2>> \in audio_valid
    /\ objs[manifest.audio_stream].stream_id = 1

\* C15: total_number_of_data_segments is the exact
\* ceil(total_duration_seconds * timescale / duration): it covers the asset and
\* exceeds the exact quotient by less than 1.
C15_TotalIsExactCeil ==
    mpc # "new"
        => /\ manifest.total_number_of_data_segments
                  = CeilDiv(manifest.total_duration_seconds * doc.timescale, doc.duration)
           /\ manifest.total_number_of_data_segments * doc.duration
                  >= manifest.total_duration_seconds * doc.timescale
           /\ (manifest.total_number_of_data_segments - 1) * doc.duration
                  < manifest.total_duration_seconds * doc.timescale
                     \/ manifest.total_duration_seconds = 0

\* C16: with no scene the resolved range is (start override or 0 when none is
\* given, end override or total_number_of_data_segments when none is given),
\* an end override of 0 included.
C16_RangeIsOverride ==
    (\E s \in StreamNames : spc[s] # "unused")
        => segment_range =
               <<IF start_segment = None THEN 0 ELSE start_segment,
                 IF end_segment = None THEN manifest.total_number_of_data_segments
                 ELSE end_segment>>

\* C16 for the overrides other than 0.
C16_NonZeroOverrides == end_segment # 0 => C16_RangeIsOverride

\* C17: calculate_scenes_boundaries yields start_segment =
\* floor(start_timing / d) and end_segment = ceil(end_timing / d) for the
\* segment duration d = duration / timescale, so that the range starts at or
\* before the scene, ends at or after it, and start_segment <= end_segment.
C17_SceneBoundaries ==
    mpc = "ok"
        => \A i \in DOMAIN scenes :
               /\ scenes[i].start_segment
                      = (scenes[i].start_timing * doc.timescale) \div doc.duration
               /\ scenes[i].end_segment
                      = CeilDiv(scenes[i].end_timing * doc.timescale, doc.duration)
               /\ scenes[i].start_segment * doc.duration
                      <= scenes[i].start_timing * doc.timescale
               /\ scenes[i].end_segment * doc.duration
                      >= scenes[i].end_timing * doc.timescale
               /\ scenes[i].start_segment <= scenes[i].end_segment

\* C17 without the two equalities: the range covers the scene.
C17_RangeCoversScene ==
    mpc = "ok"
        => \A i \in DOMAIN scenes :
               /\ scenes[i].start_segment * doc.duration
                      <= scenes[i].start_timing * doc.timescale
               /\ scenes[i].end_segment * doc.duration
                      >= scenes[i].end_timing * doc.timescale
               /\ scenes[i].start_segment <= scenes[i].end_segment

\* The scene of entry i of scenes_boundaries, as the page gives it.
SceneStart(i) == IntOf(scene_elems[i].time_start)

SceneEnd(i) == SceneStart(i) + IntOf(scene_elems[i].time_duration)

PaddingApplied ==
    /\ movie.total_number_of_data_segments # None
    /\ movie.scene_n # None /\ movie.scene_n # 0
    /\ movie.scene_padding # None /\ movie.scene_padding # 0

Max(a, b) == IF a >= b THEN a ELSE b

Min(a, b) == IF a <= b THEN a ELSE b

FetchFailed(s) ==
    \/ spc[s] \in {"raised", "error"}
    \/ \E i \in DOMAIN task[s] : task[s][i].pc = "failed"

\* The segment files stream s has written or found on disk.
RecordedFiles(s) == IF spc[s] = "unused" THEN {} ELSE Range(StreamOf(s).downloaded_segments)

\* C19: from the failing step of a stream fetch on, every segment file of the
\* work directory stays, the files written or found on disk by the run are
\* neither changed nor written again, and run does not reach the cleanup.
C19_AbortKeepsSegments ==
    [][(\E s \in StreamNames : FetchFailed(s))
         => /\ DOMAIN disk \subseteq DOMAIN disk'
            /\ \A s \in StreamNames : \A p \in RecordedFiles(s) :
                   /\ p \in DOMAIN disk /\ disk'[p] = disk[p]
                   /\ \A k \in (Len(StreamOf(s).downloaded_segments) + 1)
                                  ..Len(objs'[sref[s]].downloaded_segments) :
                          objs'[sref[s]].downloaded_segments[k] # p
            /\ rpc' \notin {"cleanup", "done"}]_vars

\* An aborted run that had written one segment file and found another on disk.
C19_Witness ==
    /\ rpc = "error"
    /\ \E s \in StreamNames : spc[s] = "error"
    /\ \E s \in StreamNames : \E p \in RecordedFiles(s) : disk[p] = "new"
    /\ \E s \in StreamNames : \E q \in RecordedFiles(s) : disk[q] = "old"

\* C20: after a non-zero exit status of ffmpeg, run has ended with the
\* FFmpegError that carries ffmpeg's stderr, and nothing the cleanup deletes
\* has been deleted.
C20_MuxFailureIsFatal ==
    (ffmpeg_out # NoOutput /\ ffmpeg_out.returncode # 0)
        => /\ rpc = "error"
           /\ ffmpeg_error = [type |-> "FFmpegError", args |-> <<ffmpeg_out.stderr>>]
           /\ \A s \in StreamNames :
                  /\ stream_file[s]
                  /\ RecordedFiles(s) \subseteq DOMAIN disk

C20_Witness ==
    /\ ffmpeg_out.returncode = 1 /\ ffmpeg_out.stderr # <<>>
    /\ rpc = "error"
    /\ ffmpeg_error.args = <<ffmpeg_out.stderr>>
    /\ \E s \in StreamNames : \E p \in RecordedFiles(s) : disk[p] = "new"

\* C21: when the delivery endpoint is unreachable or the response lacks the
\* url field, _get_new_manifest_url has made exactly one request to the
\* delivery endpoint and the failure has left it.
C21_DeliveryNotRetried ==
    (delivery.pc \in {"ok", "error"} /\ (request.pc = "raised" \/ request.response.body = "no_url"))
        => delivery.pc = "error" /\ request.sent = 1

\* C21 for the responses only: a response without the url field fails the
\* acquisition, and no further request follows it.
C21_NoRetryAfterResponse ==
    (delivery.pc \in {"ok", "error"} /\ request.pc = "returned"
        /\ request.response.body = "no_url")
        => delivery.pc = "error" /\ request.sent = request.errors + 1

\* C30: custom_request ends; it returns the response of the first attempt
\* that raises no transport error, makes at most max(1, max_retries)
\* attempts, and raises NetworkError exactly when that many attempts in a row
\* raised a transport error.
C30_BoundedRetries ==
    /\ [](/\ request.sent <= Max(1, session.max_retries)
          /\ request.pc = "returned"
                 => request.sent = request.errors + 1 /\ request.response \in Responses
          /\ request.pc = "raised" <=> request.errors = Max(1, session.max_retries)
          /\ request.pc = "try" => request.sent = request.errors)
    /\ <>(request.pc \in {"returned", "raised"})

\* The third of three attempts returned, after two backoff sleeps.
C30_Witness ==
    /\ session.max_retries = 3
    /\ request.pc = "returned" /\ request.sent = 3 /\ request.errors = 2
    /\ request.slept = backoff_delay(session, 1) + backoff_delay(session, 2)

\* C22: the retry of a segment after a 403 is made inside the gate, after the
\* task's refresh has completed, with the base_stream_url the manifest has at
\* that moment (the newest one issued), never with the one of the first request.
C22_RetryUsesFreshUrl ==
    [][\A s \in StreamNames : \A i \in DOMAIN task[s] :
           (task[s][i].pc = "parsed" /\ i \in DOMAIN task'[s] /\ task'[s][i].pc = "req2")
               => /\ task[s][i].a1 = 403 /\ task[s][i].refresh = "ok" /\ lock[s] = i
                  /\ task'[s][i].url = manifest.base_stream_url
                  /\ task'[s][i].url = url_issued
                  /\ task'[s][i].url # task[s][i].url]_vars

\* A retry that follows two refreshes: its URL is the third one issued.
C22_Witness ==
    \E s \in StreamNames : \E i \in DOMAIN task[s] :
        task[s][i].pc = "req2" /\ task[s][i].url = 3 /\ refreshes = 2

\* The data-segment tasks of stream s have been submitted to the pool.
TasksSubmitted(s) == spc[s] \in {"pool", "raised", "done"} \/ task[s] # <<>>

\* C23: for every range, once the data-segment tasks of a stream fetch are
\* submitted, the initialization segment has been fetched or found on disk and
\* its path is the first one recorded; without it no task is ever submitted.
C23_InitSegmentFirst ==
    \A s \in StreamNames :
        /\ TasksSubmitted(s)
               => /\ StreamOf(s).downloaded_segments # <<>>
                  /\ StreamOf(s).downloaded_segments[1] = SegPath(s, None)
                  /\ None \in served[s]
                  /\ rpc # "done" => Exists(SegPath(s, None))
                  /\ DOMAIN task[s] = segment_range[1]..segment_range[2]
        /\ (spc[s] = "error" /\ None \notin served[s]) => task[s] = <<>>

\* An empty range (start 2 past the end 1): the stream fetch has ended with the
\* initialization segment alone, fetched by a request.
C23_Witness ==
    \E s \in StreamNames :
        /\ segment_range[1] > segment_range[2]
        /\ spc[s] = "done" /\ task[s] = <<>>
        /\ init_answer[s] = 200
        /\ StreamOf(s).downloaded_segments = <<SegPath(s, None)>>

\* The segment requests of stream s that are in flight.
InFlight(s) ==
    {i \in DOMAIN task[s] : task[s][i].pc \in {"req1", "req2"}}
        \cup (IF spc[s] = "init_req" THEN {None} ELSE {})

\* The stream fetches (_download_stream calls) that are executing.
Fetching == {s \in StreamNames : spc[s] \in {"start", "init_req", "pool", "raised"}}

\* C24: at most threads data-segment tasks of one stream are executing, at
\* most two stream fetches, hence at most 2 * threads segment requests are in
\* flight; with target_stream set only that stream is ever fetched.
C24_BoundedConcurrency ==
    /\ \A s \in StreamNames :
           /\ Cardinality(Running(s)) <= threads
           /\ Cardinality(InFlight(s)) <= threads
    /\ Cardinality(Fetching) <= 2
    /\ Cardinality(InFlight("audio")) + Cardinality(InFlight("video")) <= 2 * threads
    /\ target_stream # "both"
           => /\ Fetching \subseteq {target_stream}
              /\ \A s \in StreamNames \ {target_stream} : spc[s] = "unused"

\* One worker per stream: each stream has one request in flight and one task
\* waiting in the queue.
C24_Witness ==
    /\ threads = 1
    /\ \A s \in StreamNames :
           /\ Cardinality(InFlight(s)) = 1
           /\ \E i \in DOMAIN task[s] : task[s][i].pc = "queued"

\* The tasks that have begun a process_manifest.
Refreshers == {<<s, i>> \in StreamNames \X TaskIds : i \in DOMAIN task[s] /\ task[s][i].refresh # "no"}

\* Some segment request of the run has been answered 403.
Some403 ==
    \E s \in StreamNames :
        \/ init_answer[s] = 403
        \/ \E i \in DOMAIN task[s] : task[s][i].a1 = 403 \/ task[s][i].a2 = 403

\* C25: process_manifest is executed once when the run starts; every later
\* execution is made by a data-segment task whose first request was answered
\* 403, once per such task, and there is none in a run without a 403.
C25_RefreshOnlyAfter403 ==
    /\ (mpc = "new") <=> (rpc = "init")
    /\ rpc = "init" => refreshes = 0
    /\ refreshes = Cardinality(Refreshers)
    /\ \A s \in StreamNames : \A i \in DOMAIN task[s] :
           task[s][i].refresh # "no" => task[s][i].a1 = 403
    /\ ~Some403 => refreshes = 0

\* Both stream fetches have ended without an exception after two refreshes.
C25_Witness ==
    /\ \A s \in StreamNames : spc[s] = "done"
    /\ refreshes = 2
    /\ Cardinality(Refreshers) = 2

\* The candidates _find_best_good_audio_stream examines: those at least as
\* high as the highest valid one, all of them when none is valid.
Examined ==
    {k \in DOMAIN doc.video :
        \A j \in ValidCandidates : doc.video[j].height <= doc.video[k].height}

\* C26: _find_best_good_audio_stream downloads the initialization segment and
\* data segment floor(total / 2) of each candidate it examines, from the
\* highest down, and examines none after the first valid one: 2 * (k + 1)
\* downloads for k rejected candidates followed by a valid one.
C26_TwoDownloadsPerCandidate ==
    mpc # "new"
        => /\ Len(probes) = 2 * Cardinality(Examined)
           /\ AudioFound => Len(probes) = 2 * (Cardinality(Examined \ ValidCandidates) + 1)
           /\ \A k \in Examined :
                  \E j \in 1..Cardinality(Examined) :
                      /\ probes[2 * j - 1] = <<doc.video[k].id, None>>
                      /\ probes[2 * j] =
                             <<doc.video[k].id, manifest.total_number_of_data_segments \div 2>>
                      /\ j = Cardinality({i \in Examined :
                                             doc.video[i].height >= doc.video[k].height})

\* Three candidates, the two highest rejected and the lowest valid: six
\* downloads, four of them for the rejected pair.
C26_Witness ==
    /\ mpc = "ok" /\ Len(doc.video) = 3
    /\ Cardinality(ValidCandidates) = 1 /\ Cardinality(Examined) = 3
    /\ Len(probes) = 6
    /\ probes[5][1] = objs[manifest.audio_stream].stream_id

\* The bytes of the files of the list, in the order of the list.
JoinExpected == [k \in DOMAIN join_files |-> join_src[join_files[k]]]

\* C27: on the same list of files, _join_files with aggressive cleaning and
\* without it write the same output; afterwards they differ only in the source
\* files that are left, and a source file is removed only after its bytes have
\* been written to the output.
C27_SameOutputEitherWay ==
    /\ []((\A a \in BOOLEAN : join[a].pc = "done")
             => /\ join[TRUE].out = join[FALSE].out
                /\ join[TRUE].out = JoinExpected
                /\ join[FALSE].disk = join_src
                /\ join[TRUE].disk = [p \in JoinPaths \ Range(join_files) |-> join_src[p]])
    /\ [][\A a \in BOOLEAN : \A p \in DOMAIN join[a].disk :
              p \notin DOMAIN join'[a].disk
                  => /\ a
                     /\ p = join_files[join[a].k]
                     /\ Len(join[a].out) = join[a].k
                     /\ join[a].out[join[a].k] = join_src[p]]_vars

\* Both calls have ended on a list of three files that are not in index order.
C27_Witness ==
    /\ \A a \in BOOLEAN : join[a].pc = "done"
    /\ Len(join_files) = MaxJoinLen
    /\ join_files[1] # SegmentPath("v", 1, None)
    /\ join[TRUE].disk # join[FALSE].disk
    /\ join[TRUE].out = join[FALSE].out
    /\ \E k \in DOMAIN join_files : join[TRUE].out[k] # join[TRUE].out[1]

\* The position in streams of stream type t (0 when it is not fetched).
LegacyPosition(t) ==
    IF t \in Range(legacy.streams) THEN CHOOSE i \in DOMAIN legacy.streams : legacy.streams[i] = t ELSE 0

LegacyBefore(p, q) == p[1] < q[1] \/ (p[1] = q[1] /\ p[2] < q[2])

\* C29: with segment_validity_check, a data segment whose probe passes is not
\* fetched again; one whose probe fails is fetched exactly once more, with
\* overwrite=True, and probed again; when the second probe fails too the run
\* ends in an error, after which nothing is fetched.
C29_RecheckOnce ==
    /\ [](/\ Len(legacy.calls) <= 2 /\ Len(legacy.probed) <= 2
          /\ (legacy.probed # <<>> /\ legacy.probed[1])
                => Len(legacy.calls) = 1 /\ Len(legacy.probed) = 1
          /\ (legacy.probed # <<>> /\ ~legacy.probed[1] /\ legacy.pc # "redownload")
                => /\ legacy.calls = <<legacy.overwrite_existing_files, TRUE>>
                   /\ Len(legacy.probed) = 2 \/ legacy.pc \in {"probe2", "error"}
          /\ legacy.probed = <<FALSE, FALSE>>
                => legacy.pc = "error" /\ legacy.error = "Segment not valid!")
    /\ [][/\ legacy.pc = "error" => legacy' = legacy
          /\ legacy.pc # "new" /\ legacy'.fetched # legacy.fetched
                => LegacyBefore(legacy.fetched, legacy'.fetched) /\ Len(legacy'.calls) = 1
          /\ legacy.pc # "new" /\ legacy'.fetched = legacy.fetched /\ legacy'.calls # legacy.calls
                => legacy.pc = "redownload" /\ legacy'.calls = Append(legacy.calls, TRUE)]_vars

\* A run was completed in which the last segment failed its first probe, was
\* fetched again and passed.
C29_Witness ==
    /\ legacy.pc = "done" /\ legacy.segment_validity_check
    /\ legacy.probed = <<FALSE, TRUE>> /\ legacy.calls = <<FALSE, TRUE>>
    /\ Len(legacy.streams) = 2

\* A run ended on the second failed probe before the last stream was fetched.
C29_WitnessError ==
    /\ legacy.pc = "error" /\ legacy.probed = <<FALSE, FALSE>> /\ legacy.si < Len(legacy.streams)

\* C31: in the retry loop of Movie._download_segment, every request made after
\* a refresh asks for a URL built from the base_stream_url the refresh set.
C31_RetryUsesRefreshedUrl ==
    \A k \in DOMAIN legacy.attempts :
        legacy.attempts[k].url = legacy.attempts[k].base_stream_url

\* The other two parts of C31: the new session is created before the manifest
\* URL is refreshed, and no more than max_tries requests are made before the
\* call fails.
C31_SessionFirstAndBoundedTries ==
    /\ Len(legacy.attempts) <= legacy.max_tries
    /\ legacy.steps \in {<<>>, <<"session">>, <<"session", "url">>,
                         <<"session", "url", "content">>}
    /\ \A k \in DOMAIN legacy.attempts : legacy.attempts[k].session = k
    /\ legacy.error = "Failed to get a response"
          => Len(legacy.attempts) = legacy.max_tries

\* A second request was made after a refresh.
C31_SecondAttempt ==
    /\ Len(legacy.attempts) >= 2 /\ legacy.pc = "returned"

\* The steps of the _download_stream call of stream s and of its tasks.
\* Some step of the fetch of stream s can be taken: the guards of StreamBegin,
\* StreamInitResponse, TaskStart, TaskResponse, TaskRefreshDeliver,
\* TaskRefreshParse, TaskRetry, TaskRetryResponse, StreamRaise, StreamJoin and
\* StreamDone, written out.
StreamCanStep(s) ==
    \/ spc[s] \in {"start", "init_req"}
    \/ /\ spc[s] \in {"pool", "raised"}
       /\ \/ \E i \in DOMAIN task[s] : task[s][i].pc \in {"req1", "parse", "parsed", "req2"}
          \/ \E i \in DOMAIN task[s] : task[s][i].pc = "forbidden" /\ lock[s] = None
          \/ /\ \E i \in DOMAIN task[s] : task[s][i].pc = "queued"
             /\ pool_has_idle_worker(Running(s), threads)
          \/ spc[s] = "pool" /\ \E i \in DOMAIN task[s] : task[s][i].pc = "failed"
          \/ spc[s] = "pool" /\ \A i \in DOMAIN task[s] : task[s][i].pc = "done"
          \/ spc[s] = "raised" /\ Finished(s)

StreamOver(s) == spc[s] \in {"unused", "done", "error"}

\* C32: once the fetch of one stream has ended in an error, the fetch of the
\* other stream can still take its next step as long as it has not ended
\* itself, and _download_streams is left with the error only when both have
\* ended.
C32_StreamsIndependent ==
    /\ \A s, t \in StreamNames :
           (rpc = "download" /\ spc[s] = "error" /\ ~StreamOver(t)) => StreamCanStep(t)
    /\ rpc \notin {"init", "paths", "ready", "download"} => \A s \in StreamNames : StreamOver(s)

\* The audio fetch failed on its initialization segment; the video fetch went
\* on, retried a segment after a 403 and completed before run ended.
C32_Witness ==
    /\ rpc = "error" /\ spc["audio"] = "error" /\ init_answer["audio"] = 500
    /\ spc["video"] = "done" /\ refreshes = 1
    /\ \E i \in DOMAIN task["video"] : task["video"][i].nreq = 2


\* ---------------------------------------------------------------- C33
\* The step is the entry of _download_segment(stream s, segment n): the call
\* for the initialization segment, the first call of a task or its retry.
CallEntry(s, n) ==
    IF n = None THEN spc[s] = "start" /\ spc'[s] # "start"
    ELSE /\ n \in DOMAIN task[s] /\ n \in DOMAIN task'[s]
         /\ task[s][n].pc \in {"queued", "parsed"}
         /\ task'[s][n].pc # task[s][n].pc

\* The step is the answer 200 to the request of _download_segment(s, n).
CallAnswered200(s, n) ==
    IF n = None THEN spc[s] = "init_req" /\ init_answer'[s] = 200
    ELSE /\ n \in DOMAIN task[s]
         /\ \/ task[s][n].pc = "req1" /\ task'[s][n].a1 = 200
            \/ task[s][n].pc = "req2" /\ task'[s][n].a2 = 200

RecordedOnce(s, p) ==
    objs'[sref[s]].downloaded_segments = Append(objs[sref[s]].downloaded_segments, p)

\* C33: a call of _download_segment that finds its file on disk while
\* overwrite_existing_files is unset sends no request, leaves the disk as it is
\* and appends the path once to downloaded_segments; every other call sends its
\* request, whether the file is there or not, and the answer 200 puts the new
\* content in the file and records the path once.
C33_SkipOrOverwrite ==
    [][\A s \in StreamNames, n \in {None} \cup TaskIds :
          /\ CallEntry(s, n) =>
                IF Exists(SegPath(s, n)) /\ ~overwrite_existing_files
                  THEN /\ requests' = requests /\ disk' = disk
                       /\ RecordedOnce(s, SegPath(s, n))
                  ELSE /\ requests'[s] = requests[s] + 1 /\ disk' = disk
                       /\ objs' = objs
          /\ CallAnswered200(s, n) =>
                /\ SegPath(s, n) \in DOMAIN disk' /\ disk'[SegPath(s, n)] = "new"
                /\ \A p \in DOMAIN disk \ {SegPath(s, n)} : p \in DOMAIN disk' /\ disk'[p] = disk[p]
                /\ RecordedOnce(s, SegPath(s, n))]_vars

\* With overwrite_existing_files set, data segment 1 of a stream, which the
\* work directory held like the file that is still old, was requested once and
\* holds the new content.
C33_Witness ==
    /\ overwrite_existing_files
    /\ \E p \in DOMAIN disk : disk[p] = "old"
    /\ \E s \in StreamNames :
          /\ 1 \in DOMAIN task[s] /\ task[s][1].pc = "done" /\ task[s][1].nreq = 1
          /\ task[s][1].a1 = 200
          /\ disk[SegPath(s, 1)] = "new"
          /\ Len(SelectSeq(objs[sref[s]].downloaded_segments, LAMBDA q : q = SegPath(s, 1))) = 1


\* ---------------------------------------------------------------- C34
\* The tasks that are inside Manifest.process_manifest: the new URL has been
\* assigned and the manifest is being downloaded and parsed.
InProcessManifest ==
    {<<s, i>> \in StreamNames \X TaskIds : i \in DOMAIN task[s] /\ task[s][i].pc = "parse"}

\* C34: at most one thread is inside process_manifest of the shared manifest
\* at a time, whichever stream its task belongs to.
C34_OneRefreshAtATime == Cardinality(InProcessManifest) <= 1


\* ---------------------------------------------------------------- C35
\* The manifest as run's first process_manifest left it.
FirstManifest ==
    parse_content([ManifestInit(None, FALSE, 1) EXCEPT !.base_stream_url = 1],
                  <<>>, DocStable, {<<1, 0>>, <<2, 0>>}).m

\* The only process_manifest call the download made so far has raised.
OnlyRefreshRaised ==
    /\ refreshes = 1
    /\ \E s \in StreamNames : \E i \in DOMAIN task[s] : task[s][i].refresh = "raised"

\* C35: when the only refresh of the download has failed, base_stream_url,
\* total_number_of_data_segments and the chosen streams are those of the first
\* process_manifest.
C35_FailedRefreshKeepsManifest ==
    OnlyRefreshRaised =>
        /\ manifest.base_stream_url = FirstManifest.base_stream_url
        /\ manifest.total_number_of_data_segments = FirstManifest.total_number_of_data_segments
        /\ manifest.audio_stream = FirstManifest.audio_stream
        /\ manifest.video_stream = FirstManifest.video_stream


\* ---------------------------------------------------------------- C36
\* C36: a stream whose initialization segment was answered 403 has ended with
\* that error: its only request is the one for the initialization segment, no
\* data task was submitted, so none refreshed the manifest for it, and the
\* initialization segment is neither recorded nor served.
C36_InitForbiddenNotRecovered ==
    \A s \in StreamNames :
        init_answer[s] = 403 =>
            /\ spc[s] = "error"
            /\ requests[s] = 1
            /\ task[s] = <<>>
            /\ lock[s] = None
            /\ None \notin served[s]
            /\ StreamOf(s).downloaded_segments = <<>>
            /\ rpc \in {"download", "error"}

\* The video stream's initialization segment got the 403 and run has ended with
\* the error, with no refresh made.
C36_Witness ==
    /\ init_answer["video"] = 403 /\ spc["video"] = "error"
    /\ rpc = "error" /\ refreshes = 0 /\ url_issued = 1


\* ---------------------------------------------------------------- C37
\* The requests the data tasks of stream s sent for their segments.
DataRequests(s) ==
    LET n(i) == IF i \in DOMAIN task[s] THEN task[s][i].nreq ELSE 0
    IN  n(0) + n(1) + n(2)

\* The tasks of stream s that called process_manifest, and those whose first
\* request was answered 403.
Refreshed(s) == {i \in DOMAIN task[s] : task[s][i].refresh # "no"}

FirstForbidden(s) == {i \in DOMAIN task[s] : task[s][i].a1 = 403}

LiveInit ==
    /\ Init
    /\ target_stream = "both" /\ threads = MaxThreads /\ ~overwrite_existing_files
    /\ start_segment = 0 /\ end_segment = None
    /\ disk = OldFiles({})

\* The positions of run, of the stream fetches, of their tasks and of the
\* concatenations: every step of Next changes one of them.
positions == <<rpc, spc, task, cpc>>

\* TaskRefreshParse as far as the positions show it: process_manifest returns
\* or raises.
RefreshParseEnds(s, i) ==
    /\ i \in DOMAIN task[s] /\ task[s][i].pc = "parse"
    /\ \/ task' = [task EXCEPT ![s][i].pc = "parsed", ![s][i].refresh = "ok"]
       \/ task' = [task EXCEPT ![s][i].pc = "failed", ![s][i].refresh = "raised"]
    /\ UNCHANGED <<rpc, spc, cpc>>

\* The steps of the threads of _download_streams: the two _download_stream
\* calls and the workers of their pools; a step of TaskRefreshParse is told by
\* the positions.
Scheduled ==
    \/ \E s \in StreamNames : StreamBegin(s)
    \/ \E s \in StreamNames, status \in Statuses : StreamInitResponse(s, status)
    \/ \E s \in StreamNames, i \in TaskIds : TaskStart(s, i)
    \/ \E s \in StreamNames, i \in TaskIds, status \in Statuses : TaskResponse(s, i, status)
    \/ \E s \in StreamNames, i \in TaskIds, ok \in BOOLEAN : TaskRefreshDeliver(s, i, ok)
    \/ \E s \in StreamNames, i \in TaskIds : RefreshParseEnds(s, i)
    \/ \E s \in StreamNames, i \in TaskIds : TaskRetry(s, i)
    \/ \E s \in StreamNames, i \in TaskIds, status \in Statuses :
           TaskRetryResponse(s, i, status)
    \/ \E s \in StreamNames : StreamRaise(s)
    \/ \E s \in StreamNames : StreamJoin(s)
    \/ \E s \in StreamNames : StreamDone(s)

SpecLive == LiveInit /\ [][Next]_vars /\ WF_positions(Scheduled)

\* manifest_lock of a stream is held only by a task that is inside the guarded
\* section, and by none once the fetch has ended.
LockHeldInsideOnly ==
    \A s \in StreamNames :
        /\ lock[s] # None =>
              /\ lock[s] \in DOMAIN task[s]
              /\ task[s][lock[s]].pc \in {"parse", "parsed", "req2"}
        /\ spc[s] \in {"done", "error"} => lock[s] = None /\ Finished(s)

\* C38: every stream fetch that was started ends, in success or in an error,
\* and then every submitted task has run, the ones that waited for the lock
\* included; the manifest lock is free whenever no task is in the guarded
\* section, also after the refresh or the retry raised.
C38_FetchTerminates ==
    /\ []LockHeldInsideOnly
    /\ \A s \in StreamNames : (spc[s] = "start") ~> (spc[s] \in {"done", "error"})

\* A task waits with its 403 while another task of the stream holds the lock.
C38_Witness ==
    \E s \in StreamNames : \E i, j \in DOMAIN task[s] :
        /\ task[s][i].pc = "forbidden" /\ lock[s] = j /\ j # i
        /\ task[s][j].pc \in {"parse", "parsed", "req2"}


\* ---------------------------------------------------------------- C39
\* Downloader.run with keep_segments_after_download set or unset, one worker
\* thread, all segments.
KeepInit ==
    /\ RunInit
    /\ keep_segments_after_download \in BOOLEAN
    /\ threads = 1 /\ ~overwrite_existing_files
    /\ start_segment = 0 /\ end_segment = None

SpecKeep == KeepInit /\ [][Next]_vars

\* The segment files the run recorded, for both streams.
AllRecordedFiles == RecordedFiles("audio") \cup RecordedFiles("video")

\* What the work directory holds: segment files and stream files.
WorkDirEmpty == DOMAIN disk = {} /\ \A s \in StreamNames : ~stream_file[s]

\* C39: no file of the work directory is removed before the cleanup, which run
\* reaches only with the output muxed or renamed; with
\* keep_segments_after_download unset the cleanup leaves no recorded segment
\* file and no stream file, with it set it removes no file; the directory is
\* removed exactly when it is empty then.
C39_CleanupAfterSuccess ==
    /\ [](/\ rpc \in {"cleanup", "done"} => output \in {"muxed", "renamed"}
          /\ rpc # "done" => work_folder = "exists"
          /\ rpc = "done" =>
                /\ work_folder = "removed" <=> WorkDirEmpty
                /\ ~keep_segments_after_download =>
                      /\ AllRecordedFiles \cap DOMAIN disk = {}
                      /\ \A s \in StreamNames : ~stream_file[s])
    /\ [][((rpc # "cleanup" \/ keep_segments_after_download) =>
               DOMAIN disk \subseteq DOMAIN disk')
          /\ ((rpc = "cleanup" /\ keep_segments_after_download) =>
               (disk' = disk /\ stream_file' = stream_file))]_vars

\* The cleanup without keep_segments_after_download has removed the recorded
\* files of both streams and the stream files, and has left the directory in
\* place because of a file of an earlier run that this run did not record.
C39_Witness ==
    /\ rpc = "done" /\ ~keep_segments_after_download /\ output = "muxed"
    /\ AllRecordedFiles # {} /\ AllRecordedFiles \cap DOMAIN disk = {}
    /\ DOMAIN disk # {} /\ work_folder = "exists"

\* The cleanup with keep_segments_after_download has left every file.
C39_WitnessKeep ==
    /\ rpc = "done" /\ keep_segments_after_download
    /\ AllRecordedFiles # {} /\ AllRecordedFiles \subseteq DOMAIN disk
    /\ \A s \in StreamNames : stream_file[s]

====
